---- MODULE Spec2Model ----
(***************************************************************************)
(* The chat of the portfolio site. The server: the POST handler of         *)
(* src/app/api/chat/route.ts with its OpenAIStream helper, the             *)
(* match_documents stored procedure it calls, and the upstream services    *)
(* (embedding provider, vector store RPC, completion provider) as the      *)
(* environment that answers its calls. The client: the useChat hook of the *)
(* chat widget (README.md), which posts the conversation and reads the     *)
(* event stream. The seeding script (scripts/seed.ts), which fills the     *)
(* documents table.                                                        *)
(*                                                                         *)
(* Text is modelled as a sequence of one-character strings, so that        *)
(* replace, join, includes, split and the regular expressions are computed *)
(* character by character as the code computes them; the bytes of a        *)
(* response body are the UTF-8 encoding of such a text.                    *)
(***************************************************************************)
EXTENDS Integers, Sequences, FiniteSets, TLC

VARIABLES
    env,            \* process.env, read by every request
    documents,      \* the documents table of the vector store
    matchQuery,     \* a direct call of match_documents by another client of the store
    matchResult,    \* the rows that direct call returned
    req,            \* req[r]: the body of request r as it arrives
    pc,             \* pc[r]: the await the handler of request r is suspended at
    messages,       \* messages[r]: the local `messages` after req.json()
    embedding,      \* embedding[r]: the local `embedding`, <<>> until it is assigned
    calls,          \* calls[r]: the calls request r has issued, in order
    inflight,       \* inflight[r]: the calls issued and not yet settled
    embedInput,     \* embedInput[r]: `input` of openai.embeddings.create
    rpcArgs,        \* rpcArgs[r]: the arguments of supabase.rpc('match_documents')
    rpcData,        \* rpcData[r]: `data` the rpc resolved with
    completionMessages, \* completionMessages[r]: `messages` of chat.completions.create
    faults,         \* faults[r]: the failures the environment produced for request r
    responses,      \* responses[r]: the Response objects the handler returned
    events,         \* events[r]: the chunks the completion stream has yielded
    enqueued,       \* enqueued[r]: the chunks passed to controller.enqueue
    streamState,    \* streamState[r]: the ReadableStream of OpenAIStream
    clientMessages, \* useChat: the `messages` state of the hook
    input,          \* useChat: the `input` state
    isLoading,      \* useChat: the `isLoading` state
    submitPc,       \* handleSubmit: the await it is suspended at, "idle" when not running
    payload,        \* handleSubmit: `payload.messages` of the fetch
    res,            \* handleSubmit: the Response the fetch resolved with
    assistantId,    \* handleSubmit: `assistantId`
    unread,         \* the bytes of res.body that reader.read() has not delivered yet
    decoder,        \* the bytes the TextDecoder holds back between two decode calls
    buffer,         \* handleSubmit: `buffer`
    cutKinds,       \* where the reads of the current response have cut the byte stream
    now,            \* Date.now()
    seedPc,         \* seed: the await the seeding script is suspended at
    seedAt,         \* seed: the index in portfolioData of `text` of the for loop
    seedCalls,      \* seed: the calls the script has issued, in order
    seedLog         \* seed: the lines the script has written to the console

serverVars == <<env, documents, matchQuery, matchResult, req, pc, messages, embedding,
                calls, inflight, embedInput, rpcArgs, rpcData, completionMessages, faults,
                responses, events, enqueued, streamState>>

clientVars == <<clientMessages, input, isLoading, submitPc, payload, res, assistantId,
                unread, decoder, buffer, cutKinds, now>>

seedVars == <<seedPc, seedAt, seedCalls, seedLog>>

vars == <<serverVars, clientVars, seedVars>>

storeVars == <<documents, matchQuery, matchResult>>

(***************************************************************************)
(* Bounds of the model.                                                    *)
(***************************************************************************)
\* the longest messages list a request body carries
MaxMessages == 2

\* the most chunks the completion stream yields before it ends or fails
MaxChunks == 2

\* the most rows of the documents table when match_documents is called directly
MaxRows == 3

\* the most submissions of a conversation
MaxSubmissions == 2

\* the clock of the client shows 0..MaxClock
MaxClock == 1

(***************************************************************************)
(* Text: sequences of characters, and the string operations the code uses. *)
(***************************************************************************)
RECURSIVE Concat(_)
\* the concatenation of a sequence of texts
Concat(texts) ==
    IF texts = <<>> THEN <<>> ELSE Head(texts) \o Concat(Tail(texts))

RECURSIVE Join(_, _)
\* Array.prototype.join: the items with sep between each two
Join(items, sep) ==
    IF items = <<>> THEN <<>>
    ELSE IF Len(items) = 1 THEN items[1]
    ELSE items[1] \o sep \o Join(Tail(items), sep)

\* String.prototype.includes
Includes(s, sub) ==
    \E i \in 0..(Len(s) - Len(sub)) : SubSeq(s, i + 1, i + Len(sub)) = sub

StartsWith(s, p) ==
    Len(s) >= Len(p) /\ SubSeq(s, 1, Len(p)) = p

UpperCase == <<"A","B","C","D","E","F","G","H","I","J","K","L","M",
               "N","O","P","Q","R","S","T","U","V","W","X","Y","Z">>

LowerCase == <<"a","b","c","d","e","f","g","h","i","j","k","l","m",
               "n","o","p","q","r","s","t","u","v","w","x","y","z">>

\* the case folding of the regular expression flag i
ToLower(c) ==
    IF \E i \in 1..Len(UpperCase) : UpperCase[i] = c
    THEN LowerCase[CHOOSE i \in 1..Len(UpperCase) : UpperCase[i] = c]
    ELSE c

ToLowerText(s) == [i \in 1..Len(s) |-> ToLower(s[i])]

(***************************************************************************)
(* String literals of the source.                                          *)
(***************************************************************************)
ERR_OPENAI_API_KEY ==
    <<"O","P","E","N","A","I","_","A","P","I","_","K","E","Y"," ","i","s"," ","m","i","s","s",
      "i","n","g">>

ERR_SUPABASE_URL ==
    <<"N","E","X","T","_","P","U","B","L","I","C","_","S","U","P","A","B","A","S","E","_","U",
      "R","L"," ","i","s"," ","i","n","v","a","l","i","d">>

ERR_SUPABASE_ANON_KEY ==
    <<"N","E","X","T","_","P","U","B","L","I","C","_","S","U","P","A","B","A","S","E","_","A",
      "N","O","N","_","K","E","Y"," ","i","s"," ","m","i","s","s","i","n","g">>

QUOTA_UNAVAILABLE ==
    <<"A","I"," ","s","e","r","v","i","c","e"," ","i","s"," ","t","e","m","p","o","r","a","r",
      "i","l","y"," ","u","n","a","v","a","i","l","a","b","l","e"," ","d","u","e"," ","t","o",
      " ","q","u","o","t","a"," ","l","i","m","i","t","s","."," ","P","l","e","a","s","e"," ",
      "t","r","y"," ","a","g","a","i","n"," ","l","a","t","e","r"," ","o","r"," ","c","o","n",
      "t","a","c","t"," ","t","h","e"," ","s","i","t","e"," ","a","d","m","i","n","i","s","t",
      "r","a","t","o","r",".">>

PROMPT_HEAD ==
    <<"\n"," "," "," "," ","Y","o","u"," ","a","r","e"," ","a","n"," ","A","I"," ","a","s","s",
      "i","s","t","a","n","t"," ","f","o","r"," ","M","a","n","u","e","l","a","'","s"," ","P",
      "o","r","t","f","o","l","i","o","."," ","\n"," "," "," "," ","Y","o","u"," ","a","c","t",
      " ","a","s"," ","a"," ","p","r","o","f","e","s","s","i","o","n","a","l"," ","r","e","p",
      "r","e","s","e","n","t","a","t","i","v","e",".","\n"," "," "," "," ","U","s","e"," ","t",
      "h","e"," ","f","o","l","l","o","w","i","n","g"," ","p","i","e","c","e","s"," ","o","f",
      " ","c","o","n","t","e","x","t"," ","t","o"," ","a","n","s","w","e","r"," ","t","h","e",
      " ","u","s","e","r","'","s"," ","q","u","e","s","t","i","o","n",".","\n"," "," "," "," ",
      "I","f"," ","t","h","e"," ","a","n","s","w","e","r"," ","i","s"," ","n","o","t"," ","i",
      "n"," ","t","h","e"," ","c","o","n","t","e","x","t",","," ","p","o","l","i","t","e","l",
      "y"," ","s","a","y"," ","y","o","u"," ","d","o","n","'","t"," ","h","a","v","e"," ","t",
      "h","a","t"," ","i","n","f","o","r","m","a","t","i","o","n",".","\n"," "," "," "," ","\n",
      " "," "," "," ","C","O","N","T","E","X","T",":","\n"," "," "," "," ">>

PROMPT_TAIL ==
    <<"\n"," "," ">>

TXT_quota ==
    <<"q","u","o","t","a">>

TXT_http ==
    <<"h","t","t","p",":","/","/">>

TXT_https ==
    <<"h","t","t","p","s",":","/","/">>

TXT_data ==
    <<"d","a","t","a",":"," ">>

(***************************************************************************)
(* Messages of the errors the runtime and the providers raise.             *)
(***************************************************************************)
MSG_UnexpectedEnd ==
    <<"U","n","e","x","p","e","c","t","e","d"," ","e","n","d"," ","o","f"," ","J","S","O","N",
      " ","i","n","p","u","t">>

MSG_UnexpectedToken ==
    <<"U","n","e","x","p","e","c","t","e","d"," ","t","o","k","e","n"," ">>

MSG_InJsonAtPosition0 ==
    <<" ","i","n"," ","J","S","O","N"," ","a","t"," ","p","o","s","i","t","i","o","n"," ","0">>

MSG_IsNotValidJson ==
    <<" ","i","s"," ","n","o","t"," ","v","a","l","i","d"," ","J","S","O","N">>

MSG_ReadingLength ==
    <<"C","a","n","n","o","t"," ","r","e","a","d"," ","p","r","o","p","e","r","t","i","e","s",
      " ","o","f"," ","u","n","d","e","f","i","n","e","d"," ","(","r","e","a","d","i","n","g",
      " ","'","l","e","n","g","t","h","'",")">>

MSG_ReadingContent ==
    <<"C","a","n","n","o","t"," ","r","e","a","d"," ","p","r","o","p","e","r","t","i","e","s",
      " ","o","f"," ","u","n","d","e","f","i","n","e","d"," ","(","r","e","a","d","i","n","g",
      " ","'","c","o","n","t","e","n","t","'",")">>

MSG_Quota ==
    <<"Y","o","u"," ","e","x","c","e","e","d","e","d"," ","y","o","u","r"," ","c","u","r","r",
      "e","n","t"," ","q","u","o","t","a">>

MSG_Connection ==
    <<"C","o","n","n","e","c","t","i","o","n"," ","e","r","r","o","r",".">>

MSG_Server ==
    <<"T","h","e"," ","s","e","r","v","e","r"," ","h","a","d"," ","a","n"," ","e","r","r","o",
      "r">>

(***************************************************************************)
(* Values.                                                                 *)
(***************************************************************************)
\* a value that may be undefined (an unset environment variable)
Undefined == [defined |-> FALSE, value |-> <<>>]

Str(t) == [defined |-> TRUE, value |-> t]

\* JavaScript's !v for a value that is a string or undefined
Falsy(v) == ~v.defined \/ v.value = <<>>

EnvKeys == {Undefined, Str(<<>>), Str(<<"s","k">>)}

EnvUrls ==
    {Undefined, Str(<<>>),
     Str(<<"h","t","t","p",":","/","/","s">>),
     Str(<<"H","T","T","P","S",":","/","/","s">>),
     Str(<<"f","t","p",":","/","/","s">>),
     Str(<<"h","t","t","p",":","/","s">>),
     Str(<<"s","?","h","t","t","p",":","/","/">>)}

Environments ==
    [OPENAI_API_KEY : EnvKeys,
     NEXT_PUBLIC_SUPABASE_URL : EnvUrls,
     NEXT_PUBLIC_SUPABASE_ANON_KEY : EnvKeys]

\* the messages a conversation is made of: two user turns (one with newlines), an
\* assistant turn and a system message supplied by the client
Message ==
    {[role |-> "user", content |-> <<"h","i">>],
     [role |-> "user", content |-> <<"a","\n","b","\n">>],
     [role |-> "assistant", content |-> <<"o","k">>],
     [role |-> "system", content |-> <<"x","\n">>]}

MessageLists == UNION {[1..n -> Message] : n \in 0..MaxMessages}

\* a request body: text that is not JSON, or a JSON object with or without `messages`
InvalidBody(text) ==
    [json |-> FALSE, text |-> text, hasMessages |-> FALSE, messages |-> <<>>]

JsonBody(hasMessages, msgs) ==
    [json |-> TRUE, text |-> <<>>, hasMessages |-> hasMessages, messages |-> msgs]

Bodies ==
    {InvalidBody(<<>>), InvalidBody(TXT_quota), JsonBody(FALSE, <<>>)}
    \cup {JsonBody(TRUE, msgs) : msgs \in MessageLists}

\* an error object as the catch block sees it; status 0 and code "" stand for
\* undefined; kind records what the failure is, which the code cannot read
RuntimeError(msg) ==
    [status |-> 0, code |-> "", message |-> msg, kind |-> "other"]

\* the errors an upstream provider rejects a call with
UpstreamErrors ==
    {[status |-> 429, code |-> "insufficient_quota", message |-> MSG_Quota, kind |-> "quota"],
     [status |-> 500, code |-> "server_error", message |-> MSG_Server, kind |-> "other"],
     RuntimeError(MSG_Connection)}

\* the error the store's client reports for a failed rpc
StoreErrors == {RuntimeError(MSG_Connection)}

\* the SyntaxError of req.json() on a body that is not JSON; its message depends on
\* the JavaScript engine: newer V8 quotes the source text, older V8 gives the position
JsonSyntaxErrors(text) ==
    IF text = <<>> THEN {RuntimeError(MSG_UnexpectedEnd)}
    ELSE {RuntimeError(MSG_UnexpectedToken \o <<text[1]>> \o MSG_InJsonAtPosition0),
          RuntimeError(MSG_UnexpectedToken \o <<"'", text[1], "'", ",", " ", "\"">>
                       \o text \o <<"\"">> \o MSG_IsNotValidJson)}

\* chunk.choices?.[0]?.delta?.content of a chunk of the completion stream: it is
\* undefined (no choice, no delta, a delta without content), null (the provider's
\* `content: string | null`) or a string
NoContent == [defined |-> FALSE, value |-> <<>>]

NullContent == [defined |-> TRUE, value |-> <<>>, null |-> TRUE]

IsNull(content) == "null" \in DOMAIN content

Fragments == {<<>>, <<"H","i"," ">>}

ChunkContents == {NoContent, NullContent} \cup {Str(f) : f \in Fragments}

(***************************************************************************)
(* Responses.                                                              *)
(***************************************************************************)
JsonError(status, msg) ==
    [kind |-> "json", status |-> status, contentType |-> "application/json",
     error |-> msg]

EventStream ==
    [kind |-> "stream", status |-> 200, contentType |-> "text/event-stream",
     error |-> <<>>]

(***************************************************************************)
(* POST: validation of the environment.                                    *)
(***************************************************************************)
\* the test with the pattern not anchored at the start: /https?:\/\//i
IsHttpUrl_Unanchored(url) ==
    LET s == ToLowerText(url)
    IN  Includes(s, TXT_http) \/ Includes(s, TXT_https)

\* /^https?:\/\//i.test(url)
IsHttpUrl(url) ==
    LET s == ToLowerText(url)
    IN  StartsWith(s, TXT_http) \/ StartsWith(s, TXT_https)

\* the responses of the three early returns: empty when the environment is valid
ConfigError(e) ==
    IF Falsy(e.OPENAI_API_KEY)
    THEN <<JsonError(500, ERR_OPENAI_API_KEY)>>
    ELSE IF Falsy(e.NEXT_PUBLIC_SUPABASE_URL)
            \/ ~IsHttpUrl(e.NEXT_PUBLIC_SUPABASE_URL.value)
    THEN <<JsonError(500, ERR_SUPABASE_URL)>>
    ELSE IF Falsy(e.NEXT_PUBLIC_SUPABASE_ANON_KEY)
    THEN <<JsonError(500, ERR_SUPABASE_ANON_KEY)>>
    ELSE <<>>

(***************************************************************************)
(* POST: the catch block.                                                  *)
(***************************************************************************)
\* error.status === 429 || error.code === 'insufficient_quota'
\*   || error.message?.includes('quota')
IsQuotaError(error) ==
    \/ error.status = 429
    \/ error.code = "insufficient_quota"
    \/ Includes(error.message, TXT_quota)

\* error.message || String(err)
ErrorMessage(err) ==
    IF err.message # <<>> THEN err.message ELSE <<"E","r","r","o","r">>

CatchResponse(err) ==
    IF IsQuotaError(err)
    THEN JsonError(503, QUOTA_UNAVAILABLE)
    ELSE JsonError(500, ErrorMessage(err))

(***************************************************************************)
(* The vector store: the documents table and match_documents.              *)
(***************************************************************************)
\* pgvector's <=> (cosine distance, 0 to 2) in tenths, on embeddings that are
\* points of a line
CosineDistance(u, v) == IF u >= v THEN u - v ELSE v - u

\* 1 - (documents.embedding <=> query_embedding), in tenths
Similarity(row, query_embedding) == 10 - CosineDistance(row.embedding, query_embedding)

Min(a, b) == IF a <= b THEN a ELSE b

\* the filter with >= for >: WHERE similarity >= match_threshold
MatchOrders_AtLeast(table, query_embedding, match_threshold) ==
    LET qualifying == {i \in 1..Len(table) :
                          Similarity(table[i], query_embedding) >= match_threshold}
        n == Cardinality(qualifying)
    IN  {ord \in [1..n -> qualifying] :
            /\ \A i, j \in 1..n : i # j => ord[i] # ord[j]
            /\ \A i, j \in 1..n :
                  i < j => CosineDistance(table[ord[i]].embedding, query_embedding)
                           <= CosineDistance(table[ord[j]].embedding, query_embedding)}

\* the orders ORDER BY documents.embedding <=> query_embedding may produce of the
\* rows WHERE similarity > match_threshold: rows at equal distance come in any order
MatchOrders(table, query_embedding, match_threshold) ==
    LET qualifying == {i \in 1..Len(table) :
                          Similarity(table[i], query_embedding) > match_threshold}
        n == Cardinality(qualifying)
    IN  {ord \in [1..n -> qualifying] :
            /\ \A i, j \in 1..n : i # j => ord[i] # ord[j]
            /\ \A i, j \in 1..n :
                  i < j => CosineDistance(table[ord[i]].embedding, query_embedding)
                           <= CosineDistance(table[ord[j]].embedding, query_embedding)}

\* the results the stored procedure may return: the first match_count rows
match_documents(table, query_embedding, match_threshold, match_count) ==
    {[k \in 1..Min(match_count, Len(ord)) |->
         [id |-> table[ord[k]].id,
          content |-> table[ord[k]].content,
          similarity |-> Similarity(table[ord[k]], query_embedding)]] :
       ord \in MatchOrders(table, query_embedding, match_threshold)}

\* the embeddings the provider returns for a query
QueryVectors == {5, 20}

\* the table after seeding
SeededDocuments ==
    <<[id |-> 1, content |-> <<"f","1">>, embedding |-> 0],
      [id |-> 2, content |-> <<"f","2">>, embedding |-> 2],
      [id |-> 3, content |-> <<"f","3">>, embedding |-> 2],
      [id |-> 4, content |-> <<"f","4">>, embedding |-> 5],
      [id |-> 5, content |-> <<"f","5">>, embedding |-> 9]>>

\* match_threshold: 0.5, in tenths
match_threshold == 5

match_count == 3

(***************************************************************************)
(* POST: the pipeline.                                                     *)
(***************************************************************************)
\* lastMessage.content.replace(/\n/g, ' ')
ReplaceNewlines(s) == [i \in 1..Len(s) |-> IF s[i] = "\n" THEN " " ELSE s[i]]

\* const lastMessage = messages[messages.length - 1]
lastMessage(msgs) == msgs[Len(msgs)]

\* the input of openai.embeddings.create
EmbeddingInput(msgs) == ReplaceNewlines(lastMessage(msgs).content)

\* the arguments of supabase.rpc('match_documents', ...)
RpcArgs(v) ==
    [query_embedding |-> v, match_threshold |-> match_threshold,
     match_count |-> match_count]

\* `data` of the rpc: an array of rows, or null when the rpc reports an error
DataRows(rows) == [isArray |-> TRUE, rows |-> rows]

DataNull == [isArray |-> FALSE, rows |-> <<>>]

\* the contents joined by a single newline: .join('\n')
contextText_OneNewline(data) ==
    IF data.isArray
    THEN Join([k \in 1..Len(data.rows) |-> data.rows[k].content], <<"\n">>)
    ELSE <<>>

\* Array.isArray(documents) ? documents.map((doc) => doc.content).join('\n\n') : ''
contextText(data) ==
    IF data.isArray
    THEN Join([k \in 1..Len(data.rows) |-> data.rows[k].content], <<"\n","\n">>)
    ELSE <<>>

systemPrompt(context) == PROMPT_HEAD \o context \o PROMPT_TAIL

\* the conversation passed on unfiltered: ...messages
NonSystem_Unfiltered(msgs) == msgs

\* messages.filter((m) => m.role !== 'system')
NonSystem(msgs) == LET keep(m) == m.role # "system" IN SelectSeq(msgs, keep)

\* the `messages` of openai.chat.completions.create
CompletionMessages(msgs, data) ==
    <<[role |-> "system", content |-> systemPrompt(contextText(data))]>>
    \o NonSystem(msgs)

(***************************************************************************)
(* OpenAIStream.                                                           *)
(***************************************************************************)
\* the record ended by a single newline: `data: ${content}\n`
Frame_OneNewline(content) == TXT_data \o content \o <<"\n">>

\* encoder.encode(`data: ${content}\n\n`)
Frame(content) == TXT_data \o content \o <<"\n","\n">>

\* `${content}` of a content that is not undefined: the string itself, or the
\* text null
TemplateText(content) ==
    IF IsNull(content) THEN <<"n","u","l","l">> ELSE content.value

\* the chunks controller.enqueue receives for one chunk of the provider
Enqueue(content) ==
    IF content.defined THEN <<Frame(TemplateText(content))>> ELSE <<>>

(***************************************************************************)
(* The client: the useChat hook of the chat widget (README.md).            *)
(***************************************************************************)
TXT_dataColon ==
    <<"d","a","t","a",":">>

TXT_ErrorPrefix ==
    <<"E","r","r","o","r",":"," ">>

TXT_ErrorContactingAPI ==
    <<"E","r","r","o","r"," ","c","o","n","t","a","c","t","i","n","g"," ","A","P","I">>

TXT_applicationJson ==
    <<"a","p","p","l","i","c","a","t","i","o","n","/","j","s","o","n">>

JSON_ErrorOpen ==
    <<"{","\"","e","r","r","o","r","\"",":","\"">>

JSON_ErrorClose ==
    <<"\"","}">>

\* \s of the regular expressions and of String.prototype.trim
IsSpace(c) == c \in {" ", "\n", "\t", "\r"}

\* !input.trim()
Blank(s) == \A i \in 1..Len(s) : IsSpace(s[i])

\* UTF-8: every character of the model is one byte, written as the character,
\* but U+00E9, which is the two bytes 0xC3 0xA9
RECURSIVE Utf8Encode(_)
Utf8Encode(text) ==
    IF text = <<>> THEN <<>>
    ELSE (IF Head(text) = "U+00E9" THEN <<"0xC3", "0xA9">> ELSE <<Head(text)>>)
         \o Utf8Encode(Tail(text))

\* TextDecoder.decode(bytes) without { stream: true }: an incomplete sequence at
\* the end and a continuation byte without its lead become U+FFFD
RECURSIVE Utf8Decode_NoStream(_)
Utf8Decode_NoStream(bytes) ==
    IF bytes = <<>> THEN [text |-> <<>>, held |-> <<>>]
    ELSE IF Head(bytes) = "0xC3" /\ Len(bytes) >= 2 /\ bytes[2] = "0xA9"
         THEN LET rest == Utf8Decode_NoStream(Tail(Tail(bytes)))
              IN  [text |-> <<"U+00E9">> \o rest.text, held |-> <<>>]
    ELSE LET rest == Utf8Decode_NoStream(Tail(bytes))
         IN  [text |-> <<(IF Head(bytes) \in {"0xC3", "0xA9"}
                          THEN "U+FFFD" ELSE Head(bytes))>> \o rest.text,
              held |-> <<>>]

\* TextDecoder.decode(bytes, { stream: true }): the text of the complete sequences
\* and the bytes of an incomplete sequence at the end, held for the next call
RECURSIVE Utf8Decode(_)
Utf8Decode(bytes) ==
    IF bytes = <<>> THEN [text |-> <<>>, held |-> <<>>]
    ELSE IF Head(bytes) = "0xC3"
         THEN IF Len(bytes) = 1 THEN [text |-> <<>>, held |-> bytes]
              ELSE IF bytes[2] = "0xA9"
                   THEN LET rest == Utf8Decode(Tail(Tail(bytes)))
                        IN  [text |-> <<"U+00E9">> \o rest.text, held |-> rest.held]
                   ELSE LET rest == Utf8Decode(Tail(bytes))
                        IN  [text |-> <<"U+FFFD">> \o rest.text, held |-> rest.held]
    ELSE LET rest == Utf8Decode(Tail(bytes))
         IN  [text |-> <<(IF Head(bytes) = "0xA9" THEN "U+FFFD" ELSE Head(bytes))>>
                       \o rest.text,
              held |-> rest.held]

\* buffer.split(/\n\n/): the pieces between the leftmost occurrences of two newlines
RECURSIVE Split(_)
Split(s) ==
    LET at == {i \in 1..(Len(s) - 1) : s[i] = "\n" /\ s[i + 1] = "\n"}
    IN  IF at = {} THEN <<s>>
        ELSE LET i == CHOOSE i \in at : \A j \in at : i <= j
             IN  <<SubSeq(s, 1, i - 1)>> \o Split(SubSeq(s, i + 2, Len(s)))

\* a pattern whose prefix is optional, /^(?:data:)?\s?([\s\S]*)$/: every part matches
Match_PrefixOptional(part) ==
    LET rest == IF StartsWith(part, TXT_dataColon)
                THEN SubSeq(part, Len(TXT_dataColon) + 1, Len(part)) ELSE part
    IN  [matched |-> TRUE,
         group |-> IF rest # <<>> /\ IsSpace(rest[1]) THEN Tail(rest) ELSE rest]

\* part.match(/^data:\s?([\s\S]*)$/): whether it matches, and its group 1
Match(part) ==
    IF StartsWith(part, TXT_dataColon)
    THEN LET rest == SubSeq(part, Len(TXT_dataColon) + 1, Len(part))
         IN  [matched |-> TRUE,
              group |-> IF rest # <<>> /\ IsSpace(rest[1]) THEN Tail(rest) ELSE rest]
    ELSE [matched |-> FALSE, group |-> <<>>]

\* the chunks of the loop over parts: m[1] of every part with m && m[1]
RECURSIVE Chunks(_)
Chunks(parts) ==
    IF parts = <<>> THEN <<>>
    ELSE (IF Match(Head(parts)).matched /\ Match(Head(parts)).group # <<>>
          THEN <<Match(Head(parts)).group>> ELSE <<>>)
         \o Chunks(Tail(parts))

\* a buffer that keeps nothing between two reads: buffer = ''
HoldBack_Nothing(parts) == <<>>

\* buffer = parts.pop() || ''
HoldBack(parts) == parts[Len(parts)]

\* the parts left after parts.pop()
Complete_Parts(parts) == SubSeq(parts, 1, Len(parts) - 1)

\* prev.map((msg) => msg.id === assistantId ? {...msg, content: msg.content + chunk} : msg)
AppendChunk(msgs, id, chunk) ==
    [i \in 1..Len(msgs) |->
        IF msgs[i].id = id THEN [msgs[i] EXCEPT !.content = @ \o chunk] ELSE msgs[i]]

\* the setMessages calls of the loop over parts, in order
RECURSIVE AppendChunks(_, _, _)
AppendChunks(msgs, id, chunks) ==
    IF chunks = <<>> THEN msgs
    ELSE AppendChunks(AppendChunk(msgs, id, Head(chunks)), id, Tail(chunks))

\* a message id: `${Date.now()}${suffix}`
Id(at, suffix) == [at |-> at, suffix |-> suffix]

NoId == Id(0, "")

\* JSON.stringify({ error: msg }) for a message without quotes or backslashes
JsonErrorText(msg) == JSON_ErrorOpen \o msg \o JSON_ErrorClose

\* res.json() of an error body: the object { error }, an object without error,
\* null, or a SyntaxError for text that is not JSON
ParseJson(text) ==
    IF /\ StartsWith(text, JSON_ErrorOpen)
       /\ Len(text) >= Len(JSON_ErrorOpen) + Len(JSON_ErrorClose)
       /\ SubSeq(text, Len(text) - 1, Len(text)) = JSON_ErrorClose
       /\ \A i \in (Len(JSON_ErrorOpen) + 1)..(Len(text) - 2) : text[i] \notin {"\"", "\\"}
    THEN [ok |-> TRUE, error |-> Str(SubSeq(text, Len(JSON_ErrorOpen) + 1, Len(text) - 2)),
          text |-> text]
    ELSE IF text \in {<<"{","}">>, <<"n","u","l","l">>}
         THEN [ok |-> TRUE, error |-> Undefined, text |-> text]
         ELSE [ok |-> FALSE, error |-> Undefined, text |-> text]

\* the body of the event stream the endpoint writes for the chunks of the provider
RECURSIVE ResponseBody(_)
ResponseBody(chunks) ==
    IF chunks = <<>> THEN <<>>
    ELSE Utf8Encode(Concat(Enqueue(Head(chunks)))) \o ResponseBody(Tail(chunks))

\* what the fetch of the client settles with: a Response, or a rejection
NetworkFailure ==
    [failed |-> TRUE, ok |-> FALSE, contentType |-> <<>>, hasBody |-> FALSE,
     body |-> <<>>, aborts |-> FALSE, chunks |-> <<>>]

NoResponse == NetworkFailure

\* the 200 event stream for the chunks of the provider; aborts: the connection
\* breaks before the end of the body
StreamReply(chunks, aborts) ==
    [failed |-> FALSE, ok |-> TRUE,
     contentType |-> <<"t","e","x","t","/","e","v","e","n","t","-","s","t","r","e","a","m">>,
     hasBody |-> TRUE,
     body |-> ResponseBody(chunks), aborts |-> aborts, chunks |-> chunks]

\* a response of a status outside 200-299
ErrorReply(contentType, text) ==
    [failed |-> FALSE, ok |-> FALSE, contentType |-> contentType, hasBody |-> TRUE,
     body |-> Utf8Encode(text), aborts |-> FALSE, chunks |-> <<>>]

\* a response of status 2xx without a body
NoBodyReply ==
    [failed |-> FALSE, ok |-> TRUE, contentType |-> <<>>, hasBody |-> FALSE,
     body |-> <<>>, aborts |-> FALSE, chunks |-> <<>>]

\* the fragments of an answer: empty, starting with a space and holding a
\* two-byte character, ending with a newline, holding a blank line
ServedFragments ==
    {<<>>, <<" ","U+00E9">>, <<"a","\n">>, <<"\n","\n","b">>}

ServedChunks ==
    UNION {[1..n -> {Str(f) : f \in ServedFragments}] : n \in 0..MaxChunks}

\* the error bodies: the endpoint's JSON error, JSON without an error field, and
\* text that is not JSON, each under both content types
ErrorBodies ==
    {JsonErrorText(<<"B","o","o","m">>), <<"{","}">>, <<"n","u","l","l">>,
     <<"B","a","d"," ","G","a","t","e","w","a","y">>, <<>>}

Replies ==
    {NetworkFailure, NoBodyReply}
    \cup {StreamReply(chunks, aborts) : chunks \in ServedChunks, aborts \in BOOLEAN}
    \cup {ErrorReply(ct, text) :
             ct \in {TXT_applicationJson, <<"t","e","x","t","/","h","t","m","l">>},
             text \in ErrorBodies}

\* what the user has typed before submitting
ClientInputs == {<<>>, <<" ">>, <<"h","i">>}

\* the hook before anything is typed
ClientIdle ==
    /\ clientMessages = <<>>
    /\ input = <<>>
    /\ isLoading = FALSE
    /\ submitPc = "idle"
    /\ payload = <<>>
    /\ res = NoResponse
    /\ assistantId = NoId
    /\ unread = <<>>
    /\ decoder = <<>>
    /\ buffer = <<>>
    /\ cutKinds = {}
    /\ now = 0

\* the seeding script before it is run
SeedIdle ==
    /\ seedPc = "start"
    /\ seedAt = 0
    /\ seedCalls = <<>>
    /\ seedLog = <<>>

(***************************************************************************)
(* State.                                                                  *)
(***************************************************************************)
NoQuery == [state |-> "none", query_embedding |-> 0, match_threshold |-> 0,
            match_count |-> 0]

\* the requests of a behaviour of Spec
Reqs == {1}

InitRequests(R) ==
    /\ req \in [R -> Bodies]
    /\ pc = [r \in R |-> "validate"]
    /\ messages = [r \in R |-> <<>>]
    /\ embedding = [r \in R |-> <<>>]
    /\ calls = [r \in R |-> <<>>]
    /\ inflight = [r \in R |-> {}]
    /\ embedInput = [r \in R |-> <<>>]
    /\ rpcArgs = [r \in R |-> RpcArgs(0)]
    /\ rpcData = [r \in R |-> DataNull]
    /\ completionMessages = [r \in R |-> <<>>]
    /\ faults = [r \in R |-> <<>>]
    /\ responses = [r \in R |-> <<>>]
    /\ events = [r \in R |-> <<>>]
    /\ enqueued = [r \in R |-> <<>>]
    /\ streamState = [r \in R |-> "none"]

Init ==
    /\ env \in Environments
    /\ documents = SeededDocuments
    /\ matchQuery = NoQuery
    /\ matchResult = <<>>
    /\ InitRequests(Reqs)
    /\ ClientIdle
    /\ SeedIdle

(***************************************************************************)
(* POST, one action for each stretch of the handler between two awaits.    *)
(***************************************************************************)
\* the next call issued while the previous one is still pending (a call that is
\* not awaited)
Await_Unsettled(r, settled, api, at) ==
    /\ calls' = [calls EXCEPT ![r] = Append(@, api)]
    /\ inflight' = [inflight EXCEPT ![r] = @ \cup {api}]
    /\ pc' = [pc EXCEPT ![r] = at]

\* the awaited call `settled` has returned; the handler issues `api` and suspends
\* on it at `at`
Await(r, settled, api, at) ==
    /\ calls' = [calls EXCEPT ![r] = Append(@, api)]
    /\ inflight' = [inflight EXCEPT ![r] = (@ \ {settled}) \cup {api}]
    /\ pc' = [pc EXCEPT ![r] = at]

\* the awaited call `settled` has failed with err: the catch block returns the
\* JSON error response
Catch(r, stage, settled, err) ==
    /\ faults' = [faults EXCEPT ![r] = Append(@, [stage |-> stage, error |-> err])]
    /\ responses' = [responses EXCEPT ![r] = Append(@, CatchResponse(err))]
    /\ inflight' = [inflight EXCEPT ![r] = @ \ {settled}]
    /\ pc' = [pc EXCEPT ![r] = "done"]
    /\ calls' = calls

\* lines 6-34: the environment checks, then req.json() is awaited
POST_Validate(r) ==
    /\ pc[r] = "validate"
    /\ IF ConfigError(env) # <<>>
       THEN /\ responses' = [responses EXCEPT ![r] = @ \o ConfigError(env)]
            /\ pc' = [pc EXCEPT ![r] = "done"]
            /\ UNCHANGED <<calls, inflight>>
       ELSE /\ Await(r, "none", "req.json", "awaitBody")
            /\ UNCHANGED responses
    /\ UNCHANGED <<clientVars, seedVars, env, storeVars, req, messages, embedding, embedInput, rpcArgs,
                   rpcData, completionMessages, faults, events, enqueued, streamState>>

\* a handler that keeps `messages` in a variable of the module, shared by all the
\* requests the process serves: parsing one body overwrites it for every request
POST_Body_SharedMessages(r) ==
    /\ pc[r] = "awaitBody"
    /\ req[r].json /\ req[r].hasMessages /\ req[r].messages # <<>>
    /\ messages' = [q \in DOMAIN pc |-> req[r].messages]
    /\ embedInput' = [embedInput EXCEPT ![r] = EmbeddingInput(req[r].messages)]
    /\ Await(r, "req.json", "embeddings.create", "awaitEmbedding")
    /\ UNCHANGED <<faults, responses>>
    /\ UNCHANGED <<clientVars, seedVars, env, storeVars, req, embedding, rpcArgs, rpcData,
                   completionMessages, events, enqueued, streamState>>

\* lines 34-41: the body is parsed, the last message is embedded
POST_Body(r) ==
    /\ pc[r] = "awaitBody"
    /\ \/ /\ ~req[r].json
          /\ \E err \in JsonSyntaxErrors(req[r].text) :
                Catch(r, "body", "req.json", err)
          /\ UNCHANGED <<messages, embedInput>>
       \/ /\ req[r].json /\ ~req[r].hasMessages
          /\ Catch(r, "body", "req.json", RuntimeError(MSG_ReadingLength))
          /\ UNCHANGED <<messages, embedInput>>
       \/ /\ req[r].json /\ req[r].hasMessages /\ req[r].messages = <<>>
          /\ Catch(r, "body", "req.json", RuntimeError(MSG_ReadingContent))
          /\ UNCHANGED <<messages, embedInput>>
       \/ /\ req[r].json /\ req[r].hasMessages /\ req[r].messages # <<>>
          /\ messages' = [messages EXCEPT ![r] = req[r].messages]
          /\ embedInput' = [embedInput EXCEPT ![r] = EmbeddingInput(req[r].messages)]
          /\ Await(r, "req.json", "embeddings.create", "awaitEmbedding")
          /\ UNCHANGED <<faults, responses>>
    /\ UNCHANGED <<clientVars, seedVars, env, storeVars, req, embedding, rpcArgs, rpcData,
                   completionMessages, events, enqueued, streamState>>

\* lines 38-49: the embedding call settles, the similarity rpc is issued
POST_Embedding(r) ==
    /\ pc[r] = "awaitEmbedding"
    /\ \/ \E v \in QueryVectors :
             /\ embedding' = [embedding EXCEPT ![r] = <<v>>]
             /\ rpcArgs' = [rpcArgs EXCEPT ![r] = RpcArgs(v)]
             /\ Await(r, "embeddings.create", "rpc", "awaitRpc")
             /\ UNCHANGED <<faults, responses>>
       \/ \E err \in UpstreamErrors :
             /\ Catch(r, "embedding", "embeddings.create", err)
             /\ UNCHANGED <<embedding, rpcArgs>>
    /\ UNCHANGED <<clientVars, seedVars, env, storeVars, req, messages, embedInput, rpcData,
                   completionMessages, events, enqueued, streamState>>

\* a handler that gives up when nothing was retrieved: an empty array is answered
\* with a JSON error and the completion call is not made
Complete_FailOnEmpty(r, data) ==
    /\ rpcData' = [rpcData EXCEPT ![r] = data]
    /\ IF data.isArray /\ data.rows = <<>>
       THEN /\ responses' = [responses EXCEPT ![r] = Append(@, JsonError(500, <<>>))]
            /\ inflight' = [inflight EXCEPT ![r] = @ \ {"rpc"}]
            /\ pc' = [pc EXCEPT ![r] = "done"]
            /\ UNCHANGED <<calls, completionMessages>>
       ELSE /\ completionMessages' =
                  [completionMessages EXCEPT ![r] = CompletionMessages(messages[r], data)]
            /\ Await(r, "rpc", "chat.completions.create", "awaitCompletion")
            /\ UNCHANGED responses

\* lines 45-82 with `data`: the context and the prompt are built, the completion
\* call is issued
Complete(r, data) ==
    /\ rpcData' = [rpcData EXCEPT ![r] = data]
    /\ completionMessages' =
          [completionMessages EXCEPT ![r] = CompletionMessages(messages[r], data)]
    /\ Await(r, "rpc", "chat.completions.create", "awaitCompletion")
    /\ UNCHANGED responses

\* a handler that also stores the question it has just looked up:
\* supabase.from('documents').insert({ content, embedding }) after the rpc
POST_Rpc_Insert(r) ==
    /\ pc[r] = "awaitRpc"
    /\ \E rows \in match_documents(documents, rpcArgs[r].query_embedding,
                                   rpcArgs[r].match_threshold,
                                   rpcArgs[r].match_count) :
          Complete(r, DataRows(rows))
    /\ documents' = Append(documents, [id |-> Len(documents) + 1,
                                       content |-> embedInput[r],
                                       embedding |-> rpcArgs[r].query_embedding])
    /\ UNCHANGED <<clientVars, seedVars, env, matchQuery, matchResult, req, messages, embedding,
                   embedInput, rpcArgs, faults, events, enqueued, streamState>>

\* lines 45-82: the rpc settles. It resolves with the rows, or with data null and
\* an error the handler does not read (const { data: documents } = ...); a client
\* library that rejects instead lands in the catch block
POST_Rpc(r) ==
    /\ pc[r] = "awaitRpc"
    /\ \/ \E rows \in match_documents(documents, rpcArgs[r].query_embedding,
                                      rpcArgs[r].match_threshold,
                                      rpcArgs[r].match_count) :
             /\ Complete(r, DataRows(rows))
             /\ UNCHANGED faults
       \/ \E err \in StoreErrors :
             /\ Complete(r, DataNull)
             /\ faults' = [faults EXCEPT ![r] =
                              Append(@, [stage |-> "retrieval", error |-> err])]
       \/ \E err \in StoreErrors :
             /\ Catch(r, "retrieval", "rpc", err)
             /\ UNCHANGED <<rpcData, completionMessages>>
    /\ UNCHANGED <<clientVars, seedVars, env, storeVars, req, messages, embedding, embedInput, rpcArgs,
                   events, enqueued, streamState>>

\* lines 74-93: the completion call settles; OpenAIStream starts iterating the
\* provider's stream and the event-stream Response is returned
POST_Completion(r) ==
    /\ pc[r] = "awaitCompletion"
    /\ \/ /\ streamState' = [streamState EXCEPT ![r] = "readable"]
          /\ responses' = [responses EXCEPT ![r] = Append(@, EventStream)]
          /\ inflight' = [inflight EXCEPT ![r] = @ \ {"chat.completions.create"}]
          /\ pc' = [pc EXCEPT ![r] = "streaming"]
          /\ UNCHANGED <<faults, calls>>
       \/ \E err \in UpstreamErrors :
             /\ Catch(r, "completion", "chat.completions.create", err)
             /\ UNCHANGED streamState
    /\ UNCHANGED <<clientVars, seedVars, env, storeVars, req, messages, embedding, embedInput, rpcArgs,
                   rpcData, completionMessages, events, enqueued>>

(***************************************************************************)
(* OpenAIStream: the start callback of the ReadableStream.                 *)
(***************************************************************************)
\* a loop that guards the write instead of letting it throw (enqueue only while
\* the stream is readable): after a cancel it goes on consuming the provider
OpenAIStream_Chunk_KeepsConsuming(r) ==
    /\ pc[r] = "streaming"
    /\ Len(events[r]) < MaxChunks
    /\ \E content \in ChunkContents :
          /\ events' = [events EXCEPT ![r] = Append(@, content)]
          /\ enqueued' = [enqueued EXCEPT ![r] =
                             IF streamState[r] = "readable" THEN @ \o Enqueue(content)
                             ELSE @]
          /\ pc' = pc
    /\ UNCHANGED <<clientVars, seedVars, env, storeVars, req, messages, embedding, calls, inflight,
                   embedInput, rpcArgs, rpcData, completionMessages, faults,
                   responses, streamState>>

\* lines 127-132: one iteration of the for await loop. controller.enqueue on a
\* stream the consumer has cancelled writes nothing and throws a TypeError, which
\* the catch block of lines 134-136 hands to controller.error, a no-op on a stream
\* that is no longer readable: start() returns and the loop is left
OpenAIStream_Chunk(r) ==
    /\ pc[r] = "streaming"
    /\ Len(events[r]) < MaxChunks
    /\ \E content \in ChunkContents :
          /\ events' = [events EXCEPT ![r] = Append(@, content)]
          /\ IF streamState[r] = "readable"
             THEN /\ enqueued' = [enqueued EXCEPT ![r] = @ \o Enqueue(content)]
                  /\ pc' = pc
             ELSE /\ enqueued' = enqueued
                  /\ pc' = [pc EXCEPT ![r] = IF content.defined THEN "done" ELSE @]
    /\ UNCHANGED <<clientVars, seedVars, env, storeVars, req, messages, embedding, calls, inflight,
                   embedInput, rpcArgs, rpcData, completionMessages, faults,
                   responses, streamState>>

\* a start callback that returns when the provider is done without calling
\* controller.close(): the stream stays open
OpenAIStream_Close_Returns(r) ==
    /\ pc[r] = "streaming"
    /\ pc' = [pc EXCEPT ![r] = "done"]
    /\ UNCHANGED <<clientVars, seedVars, env, storeVars, req, messages, embedding, calls, inflight,
                   embedInput, rpcArgs, rpcData, completionMessages, faults,
                   responses, events, enqueued, streamState>>

\* line 133: the provider's stream is done, controller.close(); on a cancelled
\* stream close() throws a TypeError that ends in the same no-op controller.error
OpenAIStream_Close(r) ==
    /\ pc[r] = "streaming"
    /\ streamState' = [streamState EXCEPT ![r] =
                          IF @ = "readable" THEN "closed" ELSE @]
    /\ pc' = [pc EXCEPT ![r] = "done"]
    /\ UNCHANGED <<clientVars, seedVars, env, storeVars, req, messages, embedding, calls, inflight,
                   embedInput, rpcArgs, rpcData, completionMessages, faults,
                   responses, events, enqueued>>

\* a catch block that ends the stream cleanly: controller.close() in place of
\* controller.error(error)
OpenAIStream_Error_Close(r) ==
    /\ pc[r] = "streaming"
    /\ \E err \in UpstreamErrors :
          faults' = [faults EXCEPT ![r] = Append(@, [stage |-> "stream", error |-> err])]
    /\ streamState' = [streamState EXCEPT ![r] =
                          IF @ = "readable" THEN "closed" ELSE @]
    /\ pc' = [pc EXCEPT ![r] = "done"]
    /\ UNCHANGED <<clientVars, seedVars, env, storeVars, req, messages, embedding, calls, inflight,
                   embedInput, rpcArgs, rpcData, completionMessages, responses,
                   events, enqueued>>

\* lines 134-136: the provider's stream throws, controller.error(error); a no-op
\* on a cancelled stream
OpenAIStream_Error(r) ==
    /\ pc[r] = "streaming"
    /\ \E err \in UpstreamErrors :
          faults' = [faults EXCEPT ![r] = Append(@, [stage |-> "stream", error |-> err])]
    /\ streamState' = [streamState EXCEPT ![r] =
                          IF @ = "readable" THEN "errored" ELSE @]
    /\ pc' = [pc EXCEPT ![r] = "done"]
    /\ UNCHANGED <<clientVars, seedVars, env, storeVars, req, messages, embedding, calls, inflight,
                   embedInput, rpcArgs, rpcData, completionMessages, responses,
                   events, enqueued>>

Next ==
    \/ \E r \in DOMAIN pc : POST_Validate(r)
    \/ \E r \in DOMAIN pc : POST_Body(r)
    \/ \E r \in DOMAIN pc : POST_Embedding(r)
    \/ \E r \in DOMAIN pc : POST_Rpc(r)
    \/ \E r \in DOMAIN pc : POST_Completion(r)
    \/ \E r \in DOMAIN pc : OpenAIStream_Chunk(r)
    \/ \E r \in DOMAIN pc : OpenAIStream_Close(r)
    \/ \E r \in DOMAIN pc : OpenAIStream_Error(r)

Spec == Init /\ [][Next]_vars

(***************************************************************************)
(* match_documents called directly, with any arguments, on any table.      *)
(***************************************************************************)
\* the embeddings of the rows of a table
RowVectors == {0, 2, 5}

\* the tables of at most MaxRows rows; the id is the row's position (BIGSERIAL)
Tables ==
    UNION {{[i \in 1..n |-> [id |-> i, content |-> <<"f", ToString(i)>>,
                              embedding |-> e[i]]] :
              e \in [1..n -> RowVectors]} : n \in 0..MaxRows}

\* the direct calls: any query, thresholds below, at and above the endpoint's,
\* any count up to the endpoint's
Queries ==
    [state : {"pending"}, query_embedding : {0, 5},
     match_threshold : {2, match_threshold, 7}, match_count : 0..match_count]

\* the stored procedure runs for the pending direct call
MatchDirect ==
    /\ matchQuery.state = "pending"
    /\ \E rows \in match_documents(documents, matchQuery.query_embedding,
                                   matchQuery.match_threshold,
                                   matchQuery.match_count) :
          matchResult' = rows
    /\ matchQuery' = [matchQuery EXCEPT !.state = "done"]
    /\ UNCHANGED <<clientVars, seedVars, env, documents, req, pc, messages, embedding,
                   calls, inflight, embedInput, rpcArgs, rpcData, completionMessages, faults,
                   responses, events, enqueued, streamState>>

\* an environment that passes the checks
ValidEnv ==
    [OPENAI_API_KEY |-> Str(<<"s","k">>),
     NEXT_PUBLIC_SUPABASE_URL |-> Str(<<"h","t","t","p",":","/","/","s">>),
     NEXT_PUBLIC_SUPABASE_ANON_KEY |-> Str(<<"s","k">>)]

\* either a direct call on any table and no chat request, or one chat request of
\* one message on the seeded table
InitMatch ==
    \/ /\ env = ValidEnv
       /\ documents \in Tables
       /\ matchQuery \in Queries
       /\ matchResult = <<>>
       /\ InitRequests({})
       /\ ClientIdle
       /\ SeedIdle
    \/ /\ env = ValidEnv
       /\ documents = SeededDocuments
       /\ matchQuery = NoQuery
       /\ matchResult = <<>>
       /\ InitRequests(Reqs)
       /\ ClientIdle
       /\ SeedIdle
       /\ \A r \in Reqs : req[r].json /\ Len(req[r].messages) = 1

NextMatch == Next \/ MatchDirect

SpecMatch == InitMatch /\ [][NextMatch]_vars

(***************************************************************************)
(* A request whose client may disconnect while the answer is streamed.     *)
(***************************************************************************)
\* the consumer of the Response cancels the ReadableStream. The underlying source
\* of lines 123-138 has no cancel() method, so the loop of start() is not told:
\* the stream is closed for writing and the loop runs on
ReadableStream_Cancel(r) ==
    /\ pc[r] = "streaming"
    /\ streamState[r] = "readable"
    /\ streamState' = [streamState EXCEPT ![r] = "cancelled"]
    /\ UNCHANGED <<clientVars, seedVars, env, storeVars, req, pc, messages, embedding, calls,
                   inflight, embedInput, rpcArgs, rpcData, completionMessages, faults,
                   responses, events, enqueued>>

\* one request of one message
InitCancel ==
    /\ env = ValidEnv
    /\ documents = SeededDocuments
    /\ matchQuery = NoQuery
    /\ matchResult = <<>>
    /\ InitRequests(Reqs)
    /\ \A r \in Reqs : req[r].json /\ Len(req[r].messages) = 1
    /\ ClientIdle
    /\ SeedIdle

NextCancel ==
    \/ Next
    \/ \E r \in DOMAIN pc : ReadableStream_Cancel(r)

\* the provider's stream is finite: it yields its next chunk, ends or fails
SpecCancel == InitCancel /\ [][NextCancel]_vars /\ WF_vars(Next)

(***************************************************************************)
(* Two requests served by the same process, their stages interleaved.      *)
(***************************************************************************)
\* the bodies of the two requests: not JSON, or one user message
ConcurrentBodies ==
    {InvalidBody(<<>>)}
    \cup {JsonBody(TRUE, <<m>>) : m \in {m \in Message : m.role = "user"}}

InitConcurrent ==
    /\ env = ValidEnv
    /\ documents = SeededDocuments
    /\ matchQuery = NoQuery
    /\ matchResult = <<>>
    /\ InitRequests({1, 2})
    /\ \A r \in {1, 2} : req[r] \in ConcurrentBodies
    /\ ClientIdle
    /\ SeedIdle

\* the upstream services of the two requests fail with a connection error only,
\* and the completion stream yields the fragment "Hi " fewer than MaxChunks times
ConcurrentEnvironment ==
    \A r \in DOMAIN pc :
        /\ \A i \in 1..Len(faults[r]) : faults[r][i].error = RuntimeError(MSG_Connection)
        /\ \A i \in 1..Len(events[r]) : events[r][i] = Str(<<"H","i"," ">>)
        /\ Len(events[r]) < MaxChunks

NextConcurrent == Next /\ ConcurrentEnvironment'

SpecConcurrent == InitConcurrent /\ [][NextConcurrent]_vars

\* a request whose client reads the response to its end; the provider's stream
\* is finite and the loop of start() runs until it is over
SpecFinite == InitCancel /\ [][Next]_vars /\ WF_vars(Next)

(***************************************************************************)
(* handleSubmit of useChat, one action for each stretch between two awaits. *)
(***************************************************************************)
\* a handler without the try/catch: the rejection leaves handleSubmit
CatchSubmit_Rethrow ==
    /\ submitPc' = "rejected"
    /\ UNCHANGED <<clientMessages, isLoading>>

\* lines 369-378: the catch block appends the generic error message
CatchSubmit ==
    /\ clientMessages' =
          Append(clientMessages, [id |-> Id(now, "-ai-error"), role |-> "assistant",
                                  content |-> TXT_ErrorContactingAPI])
    /\ isLoading' = FALSE
    /\ submitPc' = "idle"

\* a hook that sends only the new message: payload = { messages: [userMessage] }
handleSubmit_OnlyNewMessage ==
    /\ submitPc = "idle"
    /\ ~isLoading
    /\ IF Blank(input)
       THEN UNCHANGED clientVars
       ELSE LET userMessage == [id |-> Id(now, "-user"), role |-> "user",
                                content |-> input]
            IN  /\ clientMessages' = Append(clientMessages, userMessage)
                /\ isLoading' = TRUE
                /\ input' = <<>>
                /\ payload' = <<userMessage>>
                /\ submitPc' = "fetch"
                /\ UNCHANGED <<res, assistantId, unread, decoder, buffer, cutKinds, now>>
    /\ UNCHANGED <<serverVars, seedVars>>

\* lines 290-311: the form is submitted (the submit button is disabled while
\* isLoading, lines 447-451); the user message is appended and the fetch is issued
handleSubmit ==
    /\ submitPc = "idle"
    /\ ~isLoading
    /\ IF Blank(input)
       THEN UNCHANGED clientVars
       ELSE LET userMessage == [id |-> Id(now, "-user"), role |-> "user",
                                content |-> input]
            IN  /\ clientMessages' = Append(clientMessages, userMessage)
                /\ isLoading' = TRUE
                /\ input' = <<>>
                /\ payload' = Append(clientMessages, userMessage)
                /\ submitPc' = "fetch"
                /\ UNCHANGED <<res, assistantId, unread, decoder, buffer, cutKinds, now>>
    /\ UNCHANGED <<serverVars, seedVars>>

\* lines 307-346: the fetch settles. A rejection goes to the catch block; a status
\* outside 2xx goes on to read the error body; a response without body ends the
\* submission; otherwise the empty assistant message is appended and the reader
\* is taken
handleSubmit_Fetched ==
    /\ submitPc = "fetch"
    /\ \E reply \in Replies :
          /\ res' = reply
          /\ IF reply.failed
             THEN /\ CatchSubmit
                  /\ UNCHANGED <<assistantId, unread, decoder, buffer, cutKinds>>
             ELSE IF ~reply.ok
             THEN /\ submitPc' = "errorBody"
                  /\ UNCHANGED <<clientMessages, isLoading, assistantId, unread, decoder,
                                 buffer, cutKinds>>
             ELSE IF ~reply.hasBody
             THEN /\ isLoading' = FALSE
                  /\ submitPc' = "idle"
                  /\ UNCHANGED <<clientMessages, assistantId, unread, decoder, buffer,
                                 cutKinds>>
             ELSE /\ assistantId' = Id(now, "-ai")
                  /\ clientMessages' =
                        Append(clientMessages, [id |-> Id(now, "-ai"), role |-> "assistant",
                                                content |-> <<>>])
                  /\ unread' = reply.body
                  /\ decoder' = <<>>
                  /\ buffer' = <<>>
                  /\ cutKinds' = {}
                  /\ submitPc' = "read"
                  /\ UNCHANGED isLoading
    /\ UNCHANGED <<input, payload, now>>
    /\ UNCHANGED <<serverVars, seedVars>>

\* res.text(): the whole body decoded
ResponseText(response) == Utf8Decode_NoStream(response.body).text

\* lines 314-325: errorText when it can be computed. With a JSON content type it
\* is data?.error ?? JSON.stringify(data); otherwise the text of the body
ErrorText(response) ==
    IF Includes(response.contentType, TXT_applicationJson)
    THEN LET data == ParseJson(ResponseText(response))
         IN  IF data.error.defined THEN data.error.value ELSE data.text
    ELSE ResponseText(response)

\* lines 316-322: res.json() has thrown a SyntaxError and the inner catch calls
\* res.text() on the body res.json() has already consumed, which rejects
BodyUnusable(response) ==
    /\ Includes(response.contentType, TXT_applicationJson)
    /\ ~ParseJson(ResponseText(response)).ok

\* lines 313-333: the error body is read and the error message is appended; the
\* TypeError of the second read of the body lands in the catch block
handleSubmit_ErrorBody ==
    /\ submitPc = "errorBody"
    /\ IF BodyUnusable(res)
       THEN CatchSubmit
       ELSE /\ clientMessages' =
                  Append(clientMessages, [id |-> Id(now, "-ai"), role |-> "assistant",
                                          content |-> TXT_ErrorPrefix \o ErrorText(res)])
            /\ isLoading' = FALSE
            /\ submitPc' = "idle"
    /\ UNCHANGED <<input, payload, res, assistantId, unread, decoder, buffer, cutKinds,
                   now>>
    /\ UNCHANGED <<serverVars, seedVars>>

\* where a read that ends after `delivered`, with `rest` still to come, has cut
\* the stream: inside the two bytes of a character, between the two newlines of
\* a delimiter, inside a `data: ` prefix
CutKinds(delivered, rest) ==
    IF rest = <<>> \/ delivered = <<>> THEN {}
    ELSE (IF delivered[Len(delivered)] = "0xC3" THEN {"character"} ELSE {})
         \cup (IF delivered[Len(delivered)] = "\n" /\ rest[1] = "\n"
               THEN {"delimiter"} ELSE {})
         \cup (IF \E k \in 1..(Len(TXT_data) - 1) :
                     /\ Len(delivered) >= k
                     /\ Len(rest) >= Len(TXT_data) - k
                     /\ SubSeq(delivered, Len(delivered) - k + 1, Len(delivered))
                        \o SubSeq(rest, 1, Len(TXT_data) - k) = TXT_data
               THEN {"prefix"} ELSE {})

\* lines 348-366: reader.read() delivers the next bytes of the body, cut anywhere;
\* they are decoded, split, and the payloads of the complete records appended
Read_Chunk ==
    /\ submitPc = "read"
    /\ unread # <<>>
    /\ \E n \in 1..Len(unread) :
          LET value == SubSeq(unread, 1, n)
              decoded == Utf8Decode(decoder \o value)
              parts == Split(buffer \o decoded.text)
          IN  /\ unread' = SubSeq(unread, n + 1, Len(unread))
              /\ decoder' = decoded.held
              /\ buffer' = HoldBack(parts)
              /\ clientMessages' =
                    AppendChunks(clientMessages, assistantId, Chunks(Complete_Parts(parts)))
              /\ cutKinds' =
                    cutKinds \cup CutKinds(SubSeq(res.body, 1, Len(res.body) - Len(unread) + n),
                                           SubSeq(unread, n + 1, Len(unread)))
    /\ UNCHANGED <<input, isLoading, submitPc, payload, res, assistantId, now>>
    /\ UNCHANGED <<serverVars, seedVars>>

\* a loop that is left without setIsLoading(false)
Read_Done_StaysLoading ==
    /\ submitPc = "read"
    /\ unread = <<>>
    /\ ~res.aborts
    /\ submitPc' = "idle"
    /\ UNCHANGED <<clientMessages, input, isLoading, payload, res, assistantId, unread,
                   decoder, buffer, cutKinds, now>>
    /\ UNCHANGED <<serverVars, seedVars>>

\* lines 349-350, 368: the stream is done, the loop is left
Read_Done ==
    /\ submitPc = "read"
    /\ unread = <<>>
    /\ ~res.aborts
    /\ isLoading' = FALSE
    /\ submitPc' = "idle"
    /\ UNCHANGED <<clientMessages, input, payload, res, assistantId, unread, decoder,
                   buffer, cutKinds, now>>
    /\ UNCHANGED <<serverVars, seedVars>>

\* lines 349, 369-378: reader.read() rejects, the connection broke
Read_Abort ==
    /\ submitPc = "read"
    /\ res.aborts
    /\ CatchSubmit
    /\ UNCHANGED <<input, payload, res, assistantId, unread, decoder, buffer, cutKinds,
                   now>>
    /\ UNCHANGED <<serverVars, seedVars>>

\* one submission by a user who has typed anything, answered by any reply
InitClient ==
    /\ env = ValidEnv
    /\ documents = SeededDocuments
    /\ matchQuery = NoQuery
    /\ matchResult = <<>>
    /\ InitRequests({})
    /\ clientMessages = <<>>
    /\ input \in ClientInputs
    /\ isLoading = FALSE
    /\ submitPc = "idle"
    /\ payload = <<>>
    /\ res = NoResponse
    /\ assistantId = NoId
    /\ unread = <<>>
    /\ decoder = <<>>
    /\ buffer = <<>>
    /\ cutKinds = {}
    /\ now = 0
    /\ SeedIdle

NextClient ==
    \/ handleSubmit
    \/ handleSubmit_Fetched
    \/ handleSubmit_ErrorBody
    \/ Read_Chunk
    \/ Read_Done
    \/ Read_Abort

SpecClient == InitClient /\ [][NextClient]_vars

(***************************************************************************)
(* A conversation: several submissions to one hook, typed one after the    *)
(* other while the clock runs.                                             *)
(***************************************************************************)
\* the submissions made so far: one user message each
Submissions == Cardinality({i \in 1..Len(clientMessages) : clientMessages[i].role = "user"})

\* lines 286-288: the user types into the input field
handleInputChange ==
    /\ Submissions < MaxSubmissions
    /\ \E text \in ClientInputs :
          /\ text # input
          /\ input' = text
    /\ UNCHANGED <<clientMessages, isLoading, submitPc, payload, res, assistantId, unread,
                   decoder, buffer, cutKinds, now>>
    /\ UNCHANGED <<serverVars, seedVars>>

\* Date.now(): the wall clock in milliseconds moves on between two steps of the
\* hook, or not: nothing in the hook waits for the next millisecond
Tick ==
    /\ now < MaxClock
    /\ now' = now + 1
    /\ UNCHANGED <<clientMessages, input, isLoading, submitPc, payload, res, assistantId,
                   unread, decoder, buffer, cutKinds>>
    /\ UNCHANGED <<serverVars, seedVars>>

\* the answers of a conversation: a rejected fetch, a response without body, the
\* endpoint's JSON error, and the stream of MaxChunks chunks, whole or broken off
ConversationReplies ==
    {NetworkFailure, NoBodyReply,
     ErrorReply(TXT_applicationJson, JsonErrorText(<<"B","o","o","m">>))}
    \cup {StreamReply([i \in 1..MaxChunks |-> Str(<<" ","U+00E9">>)], aborts) :
             aborts \in BOOLEAN}

\* the network delivers the records of a conversation one by one
WholeRecords == decoder = <<>> /\ buffer = <<>>

InitConversation == InitClient

NextConversation ==
    \/ handleInputChange
    \/ Tick
    \/ handleSubmit
    \/ handleSubmit_Fetched /\ res' \in ConversationReplies
    \/ handleSubmit_ErrorBody
    \/ Read_Chunk /\ WholeRecords'
    \/ Read_Done
    \/ Read_Abort

SpecConversation == InitConversation /\ [][NextConversation]_vars

(***************************************************************************)
(* scripts/seed.ts: the seeding script, one action for each await.         *)
(***************************************************************************)
\* lines 15-22: the six facts, each written as a short text
portfolioData ==
    <<<<"f","1">>, <<"f","2">>, <<"f","3">>, <<"f","4">>, <<"f","5">>, <<"f","6">>>>

\* the embeddings the provider answers with
SeedVectors == {2, 5}

\* the tables a run can find: empty, or already seeded
SeedTables == {<<>>, SeededDocuments}

\* openai.embeddings.create({ model, input: text })
EmbeddingCall(text) == [api |-> "embeddings.create", content |-> text, embedding |-> 0]

\* supabase.from('documents').insert({ content: text, embedding })
InsertCall(text, vector) ==
    [api |-> "documents.insert", content |-> text, embedding |-> vector]

\* lines 25, 30-34: seed() starts and the loop issues the embedding call of the
\* first fact
seed_Start ==
    /\ seedPc = "start"
    /\ seedLog' = Append(seedLog, [line |-> "Starting seed...", content |-> <<>>])
    /\ seedAt' = 1
    /\ seedCalls' = Append(seedCalls, EmbeddingCall(portfolioData[1]))
    /\ seedPc' = "awaitEmbedding"
    /\ UNCHANGED <<serverVars, clientVars>>

\* lines 31-41: the embedding call settles. Resolved, its vector goes into the
\* insert of the same fact; rejected, nothing catches it and seed() rejects
seed_Embedding ==
    /\ seedPc = "awaitEmbedding"
    /\ \/ \E vector \in SeedVectors :
             /\ seedCalls' = Append(seedCalls, InsertCall(portfolioData[seedAt], vector))
             /\ seedPc' = "awaitInsert"
       \/ /\ seedPc' = "rejected"
          /\ UNCHANGED seedCalls
    /\ UNCHANGED <<serverVars, clientVars, seedAt, seedLog>>

\* lines 38-46: the insert settles, with the row stored (the id is the next of
\* the bigserial) or with { error } and the table as it was. Either is logged
\* and the loop goes on to the next fact, or the run is complete
seed_Insert ==
    /\ seedPc = "awaitInsert"
    /\ \E stored \in BOOLEAN :
          LET call == seedCalls[Len(seedCalls)]
              logged == [line |-> IF stored THEN "Inserted" ELSE "Error inserting",
                         content |-> call.content]
          IN  /\ documents' = IF stored
                              THEN Append(documents, [id |-> Len(documents) + 1,
                                                      content |-> call.content,
                                                      embedding |-> call.embedding])
                              ELSE documents
              /\ IF seedAt < Len(portfolioData)
                 THEN /\ seedLog' = Append(seedLog, logged)
                      /\ seedAt' = seedAt + 1
                      /\ seedCalls' =
                            Append(seedCalls, EmbeddingCall(portfolioData[seedAt + 1]))
                      /\ seedPc' = "awaitEmbedding"
                 ELSE /\ seedLog' = seedLog \o <<logged, [line |-> "Seeding complete.",
                                                          content |-> <<>>]>>
                      /\ seedPc' = "done"
                      /\ UNCHANGED <<seedAt, seedCalls>>
    /\ UNCHANGED <<clientVars, env, matchQuery, matchResult, req, pc, messages, embedding,
                   calls, inflight, embedInput, rpcArgs, rpcData, completionMessages,
                   faults, responses, events, enqueued, streamState>>

\* one run of the script, on an empty table or on one seeded before
InitSeed ==
    /\ env = ValidEnv
    /\ documents \in SeedTables
    /\ matchQuery = NoQuery
    /\ matchResult = <<>>
    /\ InitRequests({})
    /\ ClientIdle
    /\ SeedIdle

NextSeed ==
    \/ seed_Start
    \/ seed_Embedding
    \/ seed_Insert

SpecSeed == InitSeed /\ [][NextSeed]_vars

(***************************************************************************)
(* Properties.                                                             *)
(***************************************************************************)
\* api is among the calls request r has issued
Called(r, api) == \E i \in 1..Len(calls[r]) : calls[r][i] = api

\* the stages of the pipeline before the event stream is opened
PreStreamStages == {"body", "embedding", "retrieval", "completion"}

\* the environment produced a failure for request r at one of the stages
FailedAt(r, stages) ==
    \E i \in 1..Len(faults[r]) : faults[r][i].stage \in stages

\* a JSON response that carries an error field and an error status
IsJsonError(resp) ==
    /\ resp.kind = "json"
    /\ resp.contentType = "application/json"
    /\ resp.status >= 400

\* request r was answered at validation: nothing was called, the body was not read,
\* and the one response, once returned, is the 500 JSON error
ShortCircuited(r) ==
    /\ calls[r] = <<>>
    /\ inflight[r] = {}
    /\ streamState[r] = "none"
    /\ enqueued[r] = <<>>
    /\ pc[r] \in {"validate", "done"}
    /\ Len(responses[r]) = (IF pc[r] = "done" THEN 1 ELSE 0)
    /\ \A i \in 1..Len(responses[r]) :
          /\ IsJsonError(responses[r][i])
          /\ responses[r][i].status = 500
          /\ responses[r][i].error # <<>>

\* a credential is missing, or the store URL is missing or lacks the prefix
ConfigInvalid(HasPrefix(_)) ==
    \/ Falsy(env.OPENAI_API_KEY)
    \/ Falsy(env.NEXT_PUBLIC_SUPABASE_URL)
    \/ ~HasPrefix(env.NEXT_PUBLIC_SUPABASE_URL.value)
    \/ Falsy(env.NEXT_PUBLIC_SUPABASE_ANON_KEY)

\* url starts with http:// or https://, letter for letter
HasHttpPrefixExact(url) ==
    StartsWith(url, TXT_http) \/ StartsWith(url, TXT_https)

\* url starts with http:// or https://, in any letter case
HasHttpPrefixAnyCase(url) ==
    \E p \in {TXT_http, TXT_https} :
        /\ Len(url) >= Len(p)
        /\ \A i \in 1..Len(p) : ToLower(url[i]) = p[i]

\* C1, as stated: if OPENAI_API_KEY is missing, or NEXT_PUBLIC_SUPABASE_URL is
\* missing or does not start with http:// or https://, or
\* NEXT_PUBLIC_SUPABASE_ANON_KEY is missing, the request is answered with the 500
\* JSON error and no call is made, the body not even read.
C1_ConfigErrorShortCircuits_Exact ==
    ConfigInvalid(HasHttpPrefixExact) => \A r \in DOMAIN pc : ShortCircuited(r)

\* C1, amended: the same, with the prefix http:// or https:// compared without
\* regard to letter case (HTTPS://host is a valid store URL).
C1_ConfigErrorShortCircuits ==
    ConfigInvalid(HasHttpPrefixAnyCase) => \A r \in DOMAIN pc : ShortCircuited(r)

\* C1 witness: both keys are set, the URL is ftp://s, and the request was answered
C1_Witness ==
    \E r \in DOMAIN pc :
        /\ pc[r] = "done"
        /\ ~Falsy(env.OPENAI_API_KEY)
        /\ ~Falsy(env.NEXT_PUBLIC_SUPABASE_ANON_KEY)
        /\ env.NEXT_PUBLIC_SUPABASE_URL = Str(<<"f","t","p",":","/","/","s">>)
        /\ Len(responses[r]) = 1

\* C2: a failure of a step before streaming begins (body parsing, embedding call,
\* retrieval call, completion call rejected) yields exactly one JSON error response
\* and no event stream, no record is emitted for it, and a request whose stream has
\* started never gets a JSON error response.
C2_PreStreamFailureIsOneJsonError ==
    \A r \in DOMAIN pc :
        /\ FailedAt(r, PreStreamStages) =>
              /\ streamState[r] = "none"
              /\ enqueued[r] = <<>>
              /\ Len(responses[r]) = (IF pc[r] = "done" THEN 1 ELSE 0)
              /\ \A i \in 1..Len(responses[r]) : IsJsonError(responses[r][i])
        /\ streamState[r] # "none" =>
              \A i \in 1..Len(responses[r]) : responses[r][i].kind = "stream"

\* the records of the text fragments among the provider's chunks, in order
RECURSIVE FramedFragments(_)
FramedFragments(chunks) ==
    IF chunks = <<>> THEN <<>>
    ELSE (IF Head(chunks).defined /\ ~IsNull(Head(chunks))
          THEN <<<<"d","a","t","a",":"," ">> \o Head(chunks).value \o <<"\n","\n">>>>
          ELSE <<>>)
         \o FramedFragments(Tail(chunks))

\* the records a occur among the records b, in the order of a
RECURSIVE InOrderAmong(_, _)
InOrderAmong(a, b) ==
    IF a = <<>> THEN TRUE
    ELSE IF b = <<>> THEN FALSE
    ELSE IF Head(a) = Head(b) THEN InOrderAmong(Tail(a), Tail(b))
    ELSE InOrderAmong(a, Tail(b))

\* C3: on success the response is HTTP 200 with Content-Type text/event-stream and
\* its body is, for the fragments f1..fn the provider has emitted, the records
\* "data: " fi "\n\n" in provider order, one per fragment, with nothing between them
\* and nothing after them when the stream closes.
C3_BodyIsFramedFragments ==
    \A r \in DOMAIN pc :
        streamState[r] # "none" =>
            /\ Len(responses[r]) = 1
            /\ responses[r][1].status = 200
            /\ responses[r][1].contentType = "text/event-stream"
            /\ enqueued[r] = FramedFragments(events[r])
            /\ Concat(enqueued[r]) = Concat(FramedFragments(events[r]))

\* C3 witness: a stream closed after an empty and a non-empty fragment
C3_Witness ==
    \E r \in DOMAIN pc :
        /\ streamState[r] = "closed"
        /\ events[r] = <<Str(<<>>), Str(<<"H","i"," ">>)>>
        /\ Len(enqueued[r]) = 2

\* C4: a quota-exceeded failure surfaces as HTTP 503 with the fixed "temporarily
\* unavailable" message and every other runtime failure as HTTP 500 with the
\* failure's message: the status is 503 if and only if the failure is a
\* quota-exceeded failure.
C4_UnavailableIffQuota ==
    \A r \in DOMAIN pc :
        \A i \in 1..Len(faults[r]) :
            (pc[r] = "done" /\ faults[r][i].stage \in PreStreamStages) =>
                /\ Len(responses[r]) = 1
                /\ (responses[r][1].status = 503) <=> (faults[r][i].error.kind = "quota")
                /\ faults[r][i].error.kind = "quota" =>
                      responses[r][1] = JsonError(503, QUOTA_UNAVAILABLE)
                /\ faults[r][i].error.kind # "quota" =>
                      responses[r][1] = JsonError(500, faults[r][i].error.message)

\* C5: if the similarity retrieval call fails, the completion provider is never
\* called for the request and the client receives a JSON error response.
C5_RetrievalFailureAborts ==
    \A r \in DOMAIN pc :
        FailedAt(r, {"retrieval"}) =>
            /\ ~Called(r, "chat.completions.create")
            /\ streamState[r] = "none"
            /\ pc[r] = "done"
            /\ Len(responses[r]) = 1
            /\ IsJsonError(responses[r][1])

\* the calls to the three upstream services among the calls of request r, in order
UpstreamCalls(r) ==
    LET upstream(api) == api # "req.json" IN SelectSeq(calls[r], upstream)

\* C6: the upstream calls of a request happen in the order embedding, retrieval,
\* completion, each at most once; retrieval is called only after the embedding
\* call has returned a vector, which it passes on; completion is called only after
\* retrieval has returned; no two calls are in flight at the same time.
C6_SequentialCalls ==
    \A r \in DOMAIN pc :
        /\ Len(UpstreamCalls(r)) <= 3
        /\ UpstreamCalls(r) =
              SubSeq(<<"embeddings.create", "rpc", "chat.completions.create">>,
                     1, Len(UpstreamCalls(r)))
        /\ Cardinality(inflight[r]) <= 1
        /\ Called(r, "rpc") =>
              /\ "embeddings.create" \notin inflight[r]
              /\ embedding[r] # <<>>
              /\ rpcArgs[r].query_embedding = embedding[r][1]
        /\ Called(r, "chat.completions.create") =>
              /\ "rpc" \notin inflight[r]
              /\ "embeddings.create" \notin inflight[r]

\* C6 witness: all three calls were made and the answer is streaming
C6_Witness ==
    \E r \in DOMAIN pc :
        /\ pc[r] = "streaming"
        /\ Len(UpstreamCalls(r)) = 3
        /\ inflight[r] = {}

\* the last message of role user in a conversation that has one
LastUserMessage(msgs) ==
    msgs[CHOOSE i \in 1..Len(msgs) :
            /\ msgs[i].role = "user"
            /\ \A j \in (i + 1)..Len(msgs) : msgs[j].role # "user"]

\* C7: the text submitted to the embedding provider is the content of the last
\* user-role message of the conversation with every newline replaced by a space,
\* whatever the roles of the messages after or before it.
C7_EmbedsLastUserMessage ==
    \A r \in DOMAIN pc :
        (/\ Called(r, "embeddings.create")
         /\ \E i \in 1..Len(req[r].messages) : req[r].messages[i].role = "user")
        => LET content == LastUserMessage(req[r].messages).content
           IN  /\ Len(embedInput[r]) = Len(content)
               /\ \A k \in 1..Len(content) :
                     embedInput[r][k] = (IF content[k] = "\n" THEN " " ELSE content[k])

\* the messages of a conversation that are not of role system, in order
RECURSIVE WithoutSystem(_)
WithoutSystem(msgs) ==
    IF msgs = <<>> THEN <<>>
    ELSE (IF Head(msgs).role = "system" THEN <<>> ELSE <<Head(msgs)>>)
         \o WithoutSystem(Tail(msgs))

\* C8: the messages passed to the completion provider are one system-role message
\* written by the server, in first position, followed by exactly the non-system
\* messages of the conversation in their order; no system message of the client is
\* passed on, no other message is dropped, duplicated or reordered.
C8_OneServerSystemMessage ==
    \A r \in DOMAIN pc :
        Called(r, "chat.completions.create") =>
            LET sent == completionMessages[r]
            IN  /\ Len(sent) >= 1
                /\ sent[1].role = "system"
                /\ StartsWith(sent[1].content, PROMPT_HEAD)
                /\ \A k \in 2..Len(sent) : sent[k].role # "system"
                /\ Tail(sent) = WithoutSystem(req[r].messages)

\* C8 witness: the conversation <<system, user>> reached the completion call
C8_Witness ==
    \E r \in DOMAIN pc :
        /\ Called(r, "chat.completions.create")
        /\ Len(req[r].messages) = 2
        /\ req[r].messages[1].role = "system"
        /\ req[r].messages[2].role = "user"
        /\ Len(completionMessages[r]) = 2

\* the contents of the rows in order, a blank line between each two
RECURSIVE ContextBlock(_)
ContextBlock(rows) ==
    IF rows = <<>> THEN <<>>
    ELSE IF Len(rows) = 1 THEN rows[1].content
    ELSE rows[1].content \o <<"\n","\n">> \o ContextBlock(Tail(rows))

\* C9: the context block embedded in the system prompt is the contents of the
\* snippets the retriever returned, in the retriever's order, separated by a blank
\* line, none omitted, repeated or reordered.
C9_ContextInRetrieverOrder ==
    \A r \in DOMAIN pc :
        (Called(r, "chat.completions.create") /\ rpcData[r].isArray) =>
            completionMessages[r][1].content =
                PROMPT_HEAD \o ContextBlock(rpcData[r].rows) \o PROMPT_TAIL

\* C9 witness: three snippets were retrieved and the prompt was sent
C9_Witness ==
    \E r \in DOMAIN pc :
        /\ Called(r, "chat.completions.create")
        /\ rpcData[r].isArray
        /\ Len(rpcData[r].rows) = 3

\* the rows of table whose similarity to the query exceeds the threshold
Qualifying(table, q, t) ==
    {i \in 1..Len(table) : 10 - CosineDistance(table[i].embedding, q) > t}

\* rows is an answer of the retriever for (q, t, n) on table: the first n of the
\* qualifying rows in descending similarity
TopN(table, q, t, n, rows) ==
    /\ Len(rows) = Min(n, Cardinality(Qualifying(table, q, t)))
    /\ \A k \in 1..Len(rows) :
          /\ rows[k].similarity > t
          /\ \E i \in Qualifying(table, q, t) :
                /\ table[i].id = rows[k].id
                /\ table[i].content = rows[k].content
                /\ 10 - CosineDistance(table[i].embedding, q) = rows[k].similarity
    /\ \A k, l \in 1..Len(rows) : k # l => rows[k].id # rows[l].id
    /\ \A k, l \in 1..Len(rows) : k < l => rows[k].similarity >= rows[l].similarity
    /\ \A i \in Qualifying(table, q, t) :
          (\A k \in 1..Len(rows) : rows[k].id # table[i].id) =>
              \A k \in 1..Len(rows) :
                  rows[k].similarity >= 10 - CosineDistance(table[i].embedding, q)

\* C10: for any table, query, threshold and limit the retriever returns the first
\* `limit` of the rows whose similarity strictly exceeds the threshold, in
\* descending similarity (none at or below the threshold, at most `limit`, no
\* omitted qualifying row more similar than a returned one, the empty list when
\* nothing qualifies); the chat endpoint calls it with threshold 0.5 and limit 3.
C10_RetrieverTopN ==
    /\ matchQuery.state = "done" =>
          TopN(documents, matchQuery.query_embedding, matchQuery.match_threshold,
               matchQuery.match_count, matchResult)
    /\ \A r \in DOMAIN pc :
          /\ Called(r, "rpc") =>
                rpcArgs[r].match_threshold = 5 /\ rpcArgs[r].match_count = 3
          /\ rpcData[r].isArray =>
                TopN(documents, rpcArgs[r].query_embedding, 5, 3, rpcData[r].rows)

\* C10 witness: a direct call with threshold 0.5 and limit 2 on a table of three
\* qualifying rows returned two of them
C10_Witness ==
    /\ matchQuery.state = "done"
    /\ matchQuery.match_count = 2
    /\ matchQuery.match_threshold = 5
    /\ Len(matchResult) = 2
    /\ Cardinality(Qualifying(documents, matchQuery.query_embedding, 5)) = 3

\* the number of times request r has called api
CallCount(r, api) ==
    Cardinality({i \in 1..Len(calls[r]) : calls[r][i] = api})

\* C11: when the retriever returns the empty list the request does not fail: the
\* prompt is assembled with an empty context block (the head of the prompt directly
\* followed by its tail), the completion provider is called exactly once, and the
\* request goes on to streaming unless the completion call itself is rejected.
C11_EmptyRetrievalStillCompletes ==
    \A r \in DOMAIN pc :
        (rpcData[r].isArray /\ rpcData[r].rows = <<>>) =>
            /\ ~FailedAt(r, {"retrieval"})
            /\ CallCount(r, "chat.completions.create") = 1
            /\ completionMessages[r][1] =
                  [role |-> "system", content |-> PROMPT_HEAD \o PROMPT_TAIL]
            /\ pc[r] \in {"awaitCompletion", "streaming", "done"}
            /\ pc[r] # "awaitCompletion" =>
                  \/ FailedAt(r, {"completion"})
                  \/ /\ streamState[r] # "none"
                     /\ responses[r] = <<EventStream>>

\* C11 witness: the retriever returned the empty list and the answer is streaming
C11_Witness ==
    \E r \in DOMAIN pc :
        /\ rpcData[r].isArray
        /\ rpcData[r].rows = <<>>
        /\ Called(r, "rpc")
        /\ pc[r] = "streaming"
        /\ events[r] # <<>>

AssistantContent ==
    clientMessages[CHOOSE i \in 1..Len(clientMessages) :
                      clientMessages[i].id = assistantId].content

\* the bytes of the response body the reads have delivered so far
Delivered == SubSeq(res.body, 1, Len(res.body) - Len(unread))

\* content, buffer and decoder after a single read that delivers all of bytes
OneRead(bytes) ==
    LET decoded == Utf8Decode(bytes)
        parts == Split(decoded.text)
    IN  [content |-> Concat(Chunks(Complete_Parts(parts))),
         buffer |-> HoldBack(parts),
         held |-> decoded.held]

\* the client has read the event stream to its end
StreamDone ==
    /\ submitPc = "idle"
    /\ assistantId # NoId
    /\ ~res.aborts
    /\ unread = <<>>

\* C13: for a fixed byte stream, however the reads cut it (inside a `data: `
\* prefix, inside the delimiter, inside a multi-byte character), the assistant
\* content, the held-back buffer and the bytes held by the decoder after the reads
\* are those of a single read of the bytes delivered so far.
C13_ContentIndependentOfCuts ==
    assistantId # NoId =>
        /\ AssistantContent = OneRead(Delivered).content
        /\ buffer = OneRead(Delivered).buffer
        /\ decoder = OneRead(Delivered).held

\* C13 witness: a stream read to its end by reads that cut it inside a prefix,
\* inside a delimiter and inside a two-byte character, with content received
C13_Witness ==
    /\ StreamDone
    /\ cutKinds = {"prefix", "delimiter", "character"}
    /\ AssistantContent # <<>>

\* the fragments of the provider's chunks, concatenated
FragmentsText(chunks) ==
    Concat([i \in 1..Len(chunks) |-> chunks[i].value])

\* C14: for every sequence of fragments (empty, starting with whitespace,
\* containing or ending with newlines), once the client has read the stream to
\* its clean end the assistant content is the concatenation of the fragments.
C14_RoundTrip ==
    StreamDone => AssistantContent = FragmentsText(res.chunks)

\* the submission was answered with a status outside 2xx and has been handled
ErrorAnswered ==
    /\ submitPc # "fetch"
    /\ submitPc # "errorBody"
    /\ payload # <<>>
    /\ ~res.failed
    /\ ~res.ok

\* the texts the claim allows after `Error: `: the error field of a body that is
\* JSON with an error field (or, when the content type is not JSON, also the raw
\* text), the raw text of any other body
RenderedErrorTexts(response) ==
    LET text == Utf8Decode_NoStream(response.body).text
        data == ParseJson(text)
    IN  IF data.ok /\ data.error.defined
        THEN {data.error.value}
             \cup (IF Includes(response.contentType, TXT_applicationJson)
                   THEN {} ELSE {text})
        ELSE {text}

\* C15: when the endpoint answers with a non-success status the client renders
\* the error field of a JSON body and the raw text of a body that is not JSON: in
\* both cases exactly one assistant message `Error: <text>` is appended, no
\* placeholder message is created and no exception leaves handleSubmit.
C15_ErrorResponseRendered ==
    ErrorAnswered =>
        /\ Len(clientMessages) = Len(payload) + 1
        /\ clientMessages[Len(clientMessages)].role = "assistant"
        /\ \E text \in RenderedErrorTexts(res) :
              clientMessages[Len(clientMessages)].content = TXT_ErrorPrefix \o text
        /\ assistantId = NoId
        /\ submitPc # "rejected"

\* handleSubmit has run for a submission and has returned
SubmissionFinished == submitPc = "idle" /\ payload # <<>>

\* the submission failed: the fetch was rejected, the status was outside 2xx, or
\* the connection broke while the body was read
SubmissionFailed == res.failed \/ ~res.ok \/ res.aborts

\* the message a failed submission leaves at the end of the conversation
IsErrorMessage(msg) ==
    /\ msg.role = "assistant"
    /\ \/ msg.content = TXT_ErrorContactingAPI
       \/ StartsWith(msg.content, TXT_ErrorPrefix)

\* C16: every failed submission (error JSON, error text that is not JSON, request
\* never completed, stream aborted while being read) ends with an assistant error
\* message appended to the conversation and never with an exception leaving
\* handleSubmit; a failure of the network renders 'Error contacting API'.
C16_FailureEndsWithErrorMessage ==
    /\ submitPc # "rejected"
    /\ (SubmissionFinished /\ SubmissionFailed) =>
          /\ Len(clientMessages) > Len(payload)
          /\ IsErrorMessage(clientMessages[Len(clientMessages)])
          /\ \A i \in 1..Len(payload) : clientMessages[i] = payload[i]
          /\ (res.failed \/ res.aborts) =>
                clientMessages[Len(clientMessages)].content = TXT_ErrorContactingAPI

\* C16 witness: the connection broke after part of the answer had been rendered
C16_Witness ==
    /\ SubmissionFinished
    /\ res.aborts
    /\ assistantId # NoId
    /\ AssistantContent # <<>>
    /\ unread # <<>>
    /\ clientMessages[Len(clientMessages)].id = Id(now, "-ai-error")

\* everything the handler of request r holds and has produced
RequestState(r) ==
    <<req[r], pc[r], messages[r], embedding[r], calls[r], inflight[r], embedInput[r],
      rpcArgs[r], rpcData[r], completionMessages[r], faults[r], responses[r], events[r],
      enqueued[r], streamState[r]>>

\* what request r has computed is determined by its own body and by the replies
\* its own upstream calls received
OwnInputsOnly(r) ==
    /\ messages[r] \in {<<>>, req[r].messages}
    /\ Called(r, "embeddings.create") =>
          embedInput[r] =
              ReplaceNewlines(req[r].messages[Len(req[r].messages)].content)
    /\ Called(r, "rpc") => rpcArgs[r] = RpcArgs(embedding[r][1])
    /\ Called(r, "chat.completions.create") =>
          /\ completionMessages[r][1].content =
                PROMPT_HEAD \o ContextBlock(rpcData[r].rows) \o PROMPT_TAIL
          /\ Tail(completionMessages[r]) = WithoutSystem(req[r].messages)
    /\ InOrderAmong(FramedFragments(events[r]), enqueued[r])
    /\ Len(enqueued[r]) <= Len(events[r])
    /\ \A i \in 1..Len(responses[r]) :
          \/ responses[r][i] = EventStream /\ ~FailedAt(r, {"body", "embedding", "completion"})
          \/ \E k \in 1..Len(faults[r]) : responses[r][i] = CatchResponse(faults[r][k].error)

\* C17: two requests are independent under every interleaving of their stages:
\* the embedding input, retrieval query, prompt, records and outcome of each are
\* determined by its own body and its own upstream replies, and a step of one
\* request changes nothing of the other request nor anything the two share.
C17_RequestsIndependent ==
    /\ [](\A r \in DOMAIN pc : OwnInputsOnly(r))
    /\ [][/\ env' = env
          /\ documents' = documents
          /\ Cardinality({r \in DOMAIN pc : RequestState(r)' # RequestState(r)}) <= 1]_vars

\* C17 witness: two requests with different bodies, one already streaming records
\* while the other still waits for the retriever
C17_Witness ==
    /\ DOMAIN pc = {1, 2}
    /\ req[1] # req[2]
    /\ pc[1] = "streaming"
    /\ enqueued[1] # <<>>
    /\ pc[2] = "awaitRpc"
    /\ embedInput[1] # embedInput[2]

\* C18: after the client has cancelled the response stream the server writes no
\* further record and returns no other response; the loop is left, by the
\* exception of the refused write that the catch block absorbs, at the first chunk
\* with content (or when the provider's stream ends or fails), so that start()
\* returns normally and the provider is consumed no further.
C18_CancelStopsTheStream ==
    /\ [][\A r \in Reqs :
            streamState[r] = "cancelled" =>
                /\ streamState'[r] = "cancelled"
                /\ enqueued'[r] = enqueued[r]
                /\ responses'[r] = responses[r]
                /\ pc'[r] \in {"streaming", "done"}
                /\ pc[r] = "done" => events'[r] = events[r] /\ pc'[r] = "done"
                /\ (events'[r] # events[r] /\ events'[r][Len(events'[r])].defined) =>
                      pc'[r] = "done"]_vars
    /\ \A r \in Reqs : (streamState[r] = "cancelled") ~> (pc[r] = "done")

\* C18 witness: the client cancelled after the first record; the next chunk with
\* content was not written and ended the routine
C18_Witness ==
    \E r \in DOMAIN pc :
        /\ streamState[r] = "cancelled"
        /\ pc[r] = "done"
        /\ Len(events[r]) = 2
        /\ events[r][2].defined
        /\ Len(enqueued[r]) = 1
        /\ ~FailedAt(r, {"stream"})

\* the body of request r is missing or not JSON, or has no messages field, or
\* an empty messages list
BodyUnusableFor(r) ==
    \/ ~req[r].json
    \/ ~req[r].hasMessages
    \/ req[r].messages = <<>>

\* C19: a request whose body is missing, is not JSON, has no messages field or an
\* empty messages list is answered with one JSON response that carries an error
\* field and the status 400 or 500, and none of the embedding provider, the
\* retriever and the completion provider is called for it.
C19_UnusableBodyIsJsonError ==
    \A r \in DOMAIN pc :
        BodyUnusableFor(r) =>
            /\ UpstreamCalls(r) = <<>>
            /\ streamState[r] = "none"
            /\ pc[r] = "done" =>
                  /\ Len(responses[r]) = 1
                  /\ IsJsonError(responses[r][1])
                  /\ responses[r][1].error # <<>>
                  /\ responses[r][1].status \in {400, 500}

\* the operations of the handler that reach the store
StoreCalls(r) == LET store(api) == api = "rpc" IN SelectSeq(calls[r], store)

\* C20: the store is read-only for the chat pipeline: whatever the requests did,
\* succeed or fail, the documents table holds the rows it held at the start, with
\* their contents and embeddings, and the only operation a request performs on
\* the store is the similarity query, at most once.
C20_StoreIsReadOnly ==
    /\ documents = SeededDocuments
    /\ \A r \in DOMAIN pc :
          /\ Len(StoreCalls(r)) <= 1
          /\ \A i \in 1..Len(calls[r]) :
                calls[r][i] \in {"req.json", "embeddings.create", "rpc",
                                 "chat.completions.create"}

\* C20 witness: a request that retrieved three snippets and streamed its answer to
\* the end
C20_Witness ==
    \E r \in DOMAIN pc :
        /\ pc[r] = "done"
        /\ streamState[r] = "closed"
        /\ Len(StoreCalls(r)) = 1
        /\ Len(rpcData[r].rows) = 3
        /\ enqueued[r] # <<>>

(***************************************************************************)
(* C21: in every state of a conversation no two messages have the same id, *)
(* whatever the submissions and their outcomes.                            *)
(***************************************************************************)
C21_UniqueIds ==
    \A i, j \in 1..Len(clientMessages) :
        clientMessages[i].id = clientMessages[j].id => i = j

(***************************************************************************)
(* C22: while a response is read, a step changes nothing of the            *)
(* conversation but the content of the assistant message created for that  *)
(* response, the last one, and only by appending to it: the number and the *)
(* order of the messages and every other message stay as they are.         *)
(***************************************************************************)
C22_OnlyCurrentAssistantGrows ==
    [][(submitPc = "read" /\ submitPc' = "read") =>
          /\ Len(clientMessages') = Len(clientMessages)
          /\ \A i \in 1..(Len(clientMessages) - 1) : clientMessages'[i] = clientMessages[i]
          /\ LET before == clientMessages[Len(clientMessages)]
                 after == clientMessages'[Len(clientMessages)]
             IN  /\ after.id = before.id
                 /\ after.role = before.role
                 /\ StartsWith(after.content, before.content)]_vars

(***************************************************************************)
(* C23: when the provider's stream ends without an error and the client    *)
(* keeps reading, the output stream is eventually closed cleanly; at the   *)
(* close the record of every fragment, the last one included, has been     *)
(* emitted; the stream is closed once and nothing is emitted after it.     *)
(***************************************************************************)
C23_FiniteStreamIsClosedOnce ==
    /\ \A r \in Reqs :
          (pc[r] = "streaming") ~> (streamState[r] = "closed" \/ FailedAt(r, {"stream"}))
    /\ [](\A r \in Reqs :
             streamState[r] = "closed" =>
                 /\ pc[r] = "done"
                 /\ ~FailedAt(r, {"stream"})
                 /\ InOrderAmong(FramedFragments(events[r]), enqueued[r]))
    /\ [][\A r \in Reqs :
             /\ streamState[r] = "closed" =>
                   /\ streamState'[r] = "closed"
                   /\ enqueued'[r] = enqueued[r]
                   /\ events'[r] = events[r]
                   /\ pc'[r] = pc[r]
             /\ streamState'[r] = "closed" /\ streamState[r] # "closed" =>
                   /\ streamState[r] = "readable"
                   /\ enqueued'[r] = enqueued[r]]_vars

\* C23 witness: the stream was closed after two records and no failure
C23_Witness ==
    \E r \in DOMAIN pc :
        /\ streamState[r] = "closed"
        /\ pc[r] = "done"
        /\ Len(enqueued[r]) = MaxChunks
        /\ Len(events[r]) = MaxChunks
        /\ ~FailedAt(r, {"stream"})

\* the records of text that are complete (ended by a blank line), start with
\* `data:` and carry a payload
RECURSIVE PayloadRecords(_)
PayloadRecords(text) ==
    LET ends == {i \in 1..(Len(text) - 1) : text[i] = "\n" /\ text[i + 1] = "\n"}
    IN  IF ends = {} THEN 0
        ELSE LET i == CHOOSE i \in ends : \A j \in ends : i <= j
                 record == SubSeq(text, 1, i - 1)
                 afterColon == SubSeq(record, 6, Len(record))
             IN  (IF /\ Len(record) >= 5
                     /\ SubSeq(record, 1, 5) = <<"d","a","t","a",":">>
                     /\ afterColon # <<>>
                     /\ ~(Len(afterColon) = 1 /\ IsSpace(afterColon[1]))
                  THEN 1 ELSE 0)
                 + PayloadRecords(SubSeq(text, i + 2, Len(text)))

\* the complete records with a payload among the first n bytes of the response
\* body (no byte of a two-byte character is a newline or a letter of the prefix)
RecordsDelivered(n) == PayloadRecords(SubSeq(res.body, 1, n))

(***************************************************************************)
(* C24: a read that completes no `data:` record with a payload (it brings   *)
(* a part of a record, or records without the prefix) leaves the assistant *)
(* content as it is and the loop goes on to the next read; once the stream *)
(* has signalled completion nothing is read and nothing changes any more.  *)
(***************************************************************************)
C24_ReadLoop ==
    /\ [][(/\ submitPc = "read"
           /\ unread' # unread
           /\ RecordsDelivered(Len(res.body) - Len(unread'))
                 = RecordsDelivered(Len(res.body) - Len(unread))) =>
             /\ AssistantContent' = AssistantContent
             /\ submitPc' = "read"
             /\ isLoading']_vars
    /\ [][StreamDone =>
             /\ StreamDone'
             /\ <<unread, decoder, buffer, clientMessages>>'
                    = <<unread, decoder, buffer, clientMessages>>]_vars
    /\ [][unread' # unread => submitPc' = "read"]_vars

\* C24 witness: the reads so far have brought a record without the prefix and a
\* part of the next record, nothing was appended and the loop is still reading
C24_Witness ==
    /\ submitPc = "read"
    /\ RecordsDelivered(Len(Delivered)) = 0
    /\ AssistantContent = <<>>
    /\ buffer # <<>>
    /\ \E i \in 1..(Len(Delivered) - 2) :
          /\ Delivered[i] = "\n"
          /\ Delivered[i + 1] = "\n"
          /\ Delivered[i + 2] = "b"

\* the calls issued so far are, fact by fact in list order, the embedding call
\* of the fact and then its insert: no other call, none twice
SeedCallsInOrder ==
    /\ Len(seedCalls) <= 2 * Len(portfolioData)
    /\ \A k \in 1..Len(seedCalls) :
          IF k % 2 = 1
          THEN seedCalls[k] = EmbeddingCall(portfolioData[(k + 1) \div 2])
          ELSE \E vector \in SeedVectors :
                  seedCalls[k] = InsertCall(portfolioData[k \div 2], vector)

\* the table is the table of before the run followed by one row for each insert
\* logged as done, with the content and the embedding of that insert
SeedAppendsOnly ==
    \E before \in SeedTables :
        LET IsInserted(entry) == entry.line = "Inserted"
            inserted == SelectSeq(seedLog, IsInserted)
            new == SubSeq(documents, Len(before) + 1, Len(documents))
        IN  /\ Len(documents) >= Len(before)
            /\ SubSeq(documents, 1, Len(before)) = before
            /\ Len(new) = Len(inserted)
            /\ \A i \in 1..Len(new) :
                  /\ new[i].id = Len(before) + i
                  /\ new[i].content = inserted[i].content
                  /\ \E k \in 1..Len(seedCalls) :
                        seedCalls[k] = InsertCall(new[i].content, new[i].embedding)

\* a run that is over has issued both calls of every fact
SeedRunComplete ==
    seedPc \in {"done", "rejected"} => Len(seedCalls) = 2 * Len(portfolioData)

\* a run in which no call failed has stored one row per fact, in list order
SeedAllStored ==
    (/\ seedPc = "done"
     /\ \A i \in 1..Len(seedLog) : seedLog[i].line # "Error inserting") =>
        \E before \in SeedTables :
            /\ Len(documents) = Len(before) + Len(portfolioData)
            /\ SubSeq(documents, 1, Len(before)) = before
            /\ \A i \in 1..Len(portfolioData) :
                  documents[Len(before) + i].content = portfolioData[i]

(***************************************************************************)
(* C25: a seeding run issues one embedding call and one insert per fact of *)
(* the list, in list order, and nothing else; it only appends rows; a      *)
(* failed insert does not keep the later facts from being inserted; when   *)
(* every call succeeds the table holds its old rows and one new row per    *)
(* fact.                                                                   *)
(***************************************************************************)
C25_SeedOnlyInserts ==
    /\ SeedCallsInOrder
    /\ SeedAppendsOnly
    /\ SeedRunComplete
    /\ SeedAllStored

(***************************************************************************)
(* C26: isLoading is true in exactly the states in which a submission is   *)
(* in flight: it becomes true when a submission with a non-blank input     *)
(* starts, stays true until that submission is over, and is false once it  *)
(* is over, whichever way it ended; no submission starts while it is true. *)
(***************************************************************************)
C26_LoadingIffInFlight ==
    /\ [](isLoading <=> submitPc # "idle")
    /\ [][(submitPc = "idle" /\ submitPc' # "idle") =>
             /\ ~isLoading
             /\ isLoading'
             /\ ~Blank(input)
             /\ Len(clientMessages') = Len(clientMessages) + 1]_vars
    /\ [][(submitPc # "idle" /\ submitPc' = "idle") => ~isLoading']_vars

\* C26 witness: the second submission of a conversation is over, ended by a
\* stream that broke off, and isLoading is false again
C26_Witness ==
    /\ Submissions = MaxSubmissions
    /\ submitPc = "idle"
    /\ ~isLoading
    /\ res.aborts
    /\ clientMessages[Len(clientMessages)].id.suffix = "-ai-error"

\* the user message a submission of the current input creates
SubmittedMessage == [id |-> Id(now, "-user"), role |-> "user", content |-> input]

(***************************************************************************)
(* C27: the body a submission sends is the conversation as it stood before *)
(* the submission followed by the new user message, whose content is the   *)
(* submitted input; no payload holds a system message; a submission of an  *)
(* empty or blank input sends nothing and changes nothing.                 *)
(***************************************************************************)
C27_PayloadIsConversationPlusInput ==
    /\ [](\A i \in 1..Len(payload) : payload[i].role # "system")
    /\ [][(submitPc = "idle" /\ submitPc' = "fetch") =>
             /\ ~Blank(input)
             /\ payload' = clientMessages \o <<SubmittedMessage>>
             /\ clientMessages' = payload'
             /\ payload'[Len(payload')].role = "user"
             /\ payload'[Len(payload')].content = input]_vars
    /\ [][payload' # payload => (submitPc = "idle" /\ submitPc' = "fetch")]_vars
    /\ [][(submitPc = "idle" /\ Blank(input)) =>
             /\ submitPc' = "idle"
             /\ <<clientMessages, isLoading, payload, res>>'
                    = <<clientMessages, isLoading, payload, res>>]_vars

\* C27 witness: the second submission of a conversation has sent the two
\* messages of the first exchange and the new question
C27_Witness ==
    /\ submitPc = "fetch"
    /\ Len(payload) = 3
    /\ payload[2].role = "assistant"
    /\ payload[3].role = "user"
    /\ payload[3].content = <<"h","i">>
    /\ clientMessages = payload

(***************************************************************************)
(* C28: when the response stream has completed, nothing of what was        *)
(* received is left in the hold-back buffer of the consumer (nor held by   *)
(* the decoder): every record the server sent has been processed.          *)
(***************************************************************************)
C28_NothingHeldBackAtEnd ==
    StreamDone => (buffer = <<>> /\ decoder = <<>>)

\* the chunk carries a content value: a string, possibly empty
HasContent(chunk) == chunk.defined /\ ~IsNull(chunk)

\* the events of request r so far that carry a content value
ContentEvents(r) == {i \in 1..Len(events[r]) : HasContent(events[r][i])}

(***************************************************************************)
(* C29: the server emits a record for exactly the provider events that     *)
(* carry a content value: the number of records emitted is the number of   *)
(* events with content, and an event without content emits nothing and     *)
(* leaves the stream open.                                                 *)
(***************************************************************************)
C29_RecordPerContentEvent ==
    /\ [](\A r \in DOMAIN pc : Len(enqueued[r]) = Cardinality(ContentEvents(r)))
    /\ [][\A r \in DOMAIN pc :
             (events'[r] # events[r] /\ ~HasContent(events'[r][Len(events'[r])])) =>
                 /\ enqueued'[r] = enqueued[r]
                 /\ streamState'[r] = streamState[r]
                 /\ pc'[r] = "streaming"]_vars

====
